---- MODULE Spec2Model ----
(***************************************************************************)
(* Model of src/command/monitor.py of RSS-to-Telegram-Bot: the feed        *)
(* monitor (submission / deferral state machine, dispatcher, monitor       *)
(* worker), the update detector, the delivery fan-out and the blocked-user *)
(* handler.                                                                *)
(*                                                                         *)
(* The program runs on one asyncio event loop: a block of synchronous      *)
(* statements is one atomic action, and every `await` that can suspend is  *)
(* a boundary between two actions.                                         *)
(***************************************************************************)
EXTENDS Integers, Sequences, FiniteSets, Bags, TLC

(***************************************************************************)
(* Bounds of the model.                                                    *)
(***************************************************************************)
\* the clock runs from 0 to MaxTime (minutes)
MaxTime == 4
\* number of submit_feed calls in a behaviour
MaxSubmits == 4
\* number of MonitorWorker tasks the dispatcher spawns in a behaviour
MaxWorkers == 2
\* the same number in the behaviours of SpecPrompt
MaxPromptWorkers == 3

\* number of outcomes recorded in a behaviour of SpecStat
MaxRecords == 2
\* env.loop.time() runs from 0 to MaxLoopTime (half seconds)
MaxLoopTime == 1200
\* line 26, TIMEOUT: the period of the tier-1 summary, in seconds
TIMEOUT == 600

\* the feed ids
Feeds == {1}
\* the configured values of db.EffectiveOptions.minimal_interval, in minutes: one for
\* which _lock_feed_id does nothing (<= 1) and one for which it locks
Intervals == {1, 2}

(***************************************************************************)
(* class TaskState(enum.IntFlag): a state is a set of flags, EMPTY = {}.   *)
(***************************************************************************)
LOCKED == "LOCKED"
IN_PROGRESS == "IN_PROGRESS"
DEFERRED == "DEFERRED"
EMPTY == {}
TaskState == SUBSET {LOCKED, IN_PROGRESS, DEFERRED}

(***************************************************************************)
(* class MonitoringCounter / MonitoringStat: the tags of a counter.        *)
(***************************************************************************)
Tags ==
  {"SUM", "not_updated", "cached", "empty", "failed", "updated", "skipped", "timeout",
   "cancelled", "unknown_error", "timeout_unknown_error", "deferred", "resubmitted"}

\* the ten outcomes of a feed check
TerminalTags ==
  {"skipped", "cached", "empty", "not_updated", "updated", "failed", "cancelled",
   "unknown_error", "timeout", "timeout_unknown_error"}

MonitoringCounter == [t \in Tags |-> 0]

\* MonitoringStat._sum
stat_sum(c) ==
  [c EXCEPT !["SUM"] = @ + 1]

\* MonitoringStat.not_updated
stat_not_updated(c) ==
  stat_sum([c EXCEPT !["not_updated"] = @ + 1])

\* the methods with cached and empty not calling not_updated
StatRecord_flat(c, tag) ==
  IF tag = "none" THEN c ELSE stat_sum([c EXCEPT ![tag] = @ + 1])

\* MonitoringStat.<tag>(): cached and empty go through not_updated, every other
\* method increments its own tag and SUM.  "none" stands for no call at all.
StatRecord(c, tag) ==
  CASE tag = "none" -> c
    [] tag = "not_updated" -> stat_not_updated(c)
    [] tag \in {"cached", "empty"} -> stat_not_updated([c EXCEPT ![tag] = @ + 1])
    [] OTHER -> stat_sum([c EXCEPT ![tag] = @ + 1])

(***************************************************************************)
(* State of the Monitor singleton and of the event loop around it.         *)
(***************************************************************************)
VARIABLES
  minimal_interval,   \* db.EffectiveOptions.minimal_interval, in minutes
  clock,              \* env.loop.time(), in minutes
  task_defer_map,     \* Monitor._task_defer_map: feed id -> TaskState
  queue,              \* Monitor._queue: items are a Feed object or a bare feed id
  timers,             \* pending env.loop.call_later(..., _erase_state_for_feed_id, id, LOCKED)
  worker,             \* the _do_monitor_task tasks: position and feed of each
  counter_tier2,      \* MonitoringStat._counter_tier2
  submits,            \* number of submit_feed calls so far
  lastOp,             \* the table operation the last step performed
  lastSubmitEnq,      \* per feed: time of the last enqueue done by submit_feed, -1 if none
  early               \* per feed: an item was enqueued before lastSubmitEnq + minimal_interval

(***************************************************************************)
(* State of one feed check: the db.Feed object the detector works on, the  *)
(* row of the feed in the store, and the detector task _do_monitor_a_feed. *)
(***************************************************************************)
VARIABLES
  feed,               \* the db.Feed object held by the detector
  stored,             \* the fields of the feed as last saved
  det,                \* _do_monitor_a_feed: position and local variables
  hist                \* what the check has done: saves, migrations, fan-out, feed at start

(***************************************************************************)
(* State of one fan-out (line 489) and of the blocked-user handler.        *)
(***************************************************************************)
VARIABLES
  notify,             \* the __notify_all coroutines of one gather: position of each entry
  send,               \* the __send coroutines: position per entry and sub
  startLog,           \* the entries in the order their __notify_all started
  sendLog,            \* per sub: the entries in the order their send was issued
  blocked_counter,    \* __user_blocked_counter: user id -> count, 0 when absent
  unsub_lock,         \* __user_unsub_all_lock_bucket: user id -> locked
  unsubbing,          \* per user: running calls of unsub_all_and_leave_chat
  streak,             \* per user: blocked-style failures since the last successful send
  overlap,            \* per user: a failure of the streak arrived while the lock was held
  unsub_at,           \* per user: the values of streak at which unsub was called
  lastBlk             \* the last step of the handler

(***************************************************************************)
(* The dispatcher tasks created by Monitor.init.                           *)
(***************************************************************************)
VARIABLES
  bg_tasks,           \* every task init has created for _create_bg_task, by position
  bg_task             \* Monitor._bg_task: the index of the task in bg_tasks, 0 for None

(***************************************************************************)
(* class MonitoringStat beyond its tier-2 counter, and what it has logged. *)
(***************************************************************************)
VARIABLES
  counter_tier1,              \* MonitoringStat._counter_tier1
  tier1_last_summary_time,    \* MonitoringStat._tier1_last_summary_time, None at first
  tier2_last_summary_time,    \* MonitoringStat._tier2_last_summary_time, None at first
  loop_time,                  \* env.loop.time(), in half seconds
  recorded,                   \* the sum of all the outcomes recorded
  emitted1,                   \* the sum of the tier-1 summaries logged
  emitted2,                   \* the sum of the tier-2 summaries logged
  lastStat                    \* the last operation on the MonitoringStat

Workers == DOMAIN worker

schedVars ==
  <<minimal_interval, clock, task_defer_map, queue, timers, worker, counter_tier2, submits,
    lastOp, lastSubmitEnq, early>>

checkVars == <<feed, stored, det, hist>>

fanVars == <<notify, send, startLog, sendLog>>

blkVars == <<blocked_counter, unsub_lock, unsubbing, streak, overlap, unsub_at, lastBlk>>

lifeVars == <<bg_tasks, bg_task>>

statVars ==
  <<counter_tier1, tier1_last_summary_time, tier2_last_summary_time, loop_time, recorded,
    emitted1, emitted2, lastStat>>

vars == <<schedVars, checkVars, fanVars, blkVars, lifeVars, statVars>>

(***************************************************************************)
(* The synchronous operations of the Monitor are functions of the part of  *)
(* the state they touch: m = [map, timers, queue, stat].                   *)
(***************************************************************************)
Cur ==
  [map |-> task_defer_map, timers |-> timers, queue |-> queue, stat |-> counter_tier2]

\* a queue item: a db.Feed object (is_feed) or a bare feed id
FeedItem(feed_id) ==
  [id |-> feed_id, is_feed |-> TRUE]

IdItem(feed_id) ==
  [id |-> feed_id, is_feed |-> FALSE]

UnlockTimer(feed_id) ==
  [id |-> feed_id, due |-> clock + minimal_interval]

\* _lock_feed_id without the call_later that unlocks
lock_feed_id_without_timer(m, feed_id) ==
  IF minimal_interval <= 1
    THEN m
    ELSE [m EXCEPT !.map = [@ EXCEPT ![feed_id] = {LOCKED}]]

\* Monitor._lock_feed_id
lock_feed_id(m, feed_id) ==
  IF minimal_interval <= 1
    THEN m
    ELSE [m EXCEPT !.map = [@ EXCEPT ![feed_id] = {LOCKED}],
                   !.timers = @ (+) SetToBag({UnlockTimer(feed_id)})]

\* submit_feed with `task_state | TaskState.DEFERRED` written as `TaskState.DEFERRED`
submit_feed_overwrite(m, feed_id) ==
  LET task_state == m.map[feed_id]
  IN  IF task_state # {DEFERRED} /\ task_state # EMPTY
        THEN [m EXCEPT !.map = [@ EXCEPT ![feed_id] = {DEFERRED}],
                       !.stat = StatRecord(@, "deferred")]
        ELSE LET l == lock_feed_id(m, feed_id)
             IN  [l EXCEPT !.queue = Append(@, FeedItem(feed_id))]

\* Monitor.submit_feed
submit_feed(m, feed_id) ==
  LET task_state == m.map[feed_id]
  IN  IF task_state # {DEFERRED} /\ task_state # EMPTY
        THEN [m EXCEPT !.map = [@ EXCEPT ![feed_id] = task_state \cup {DEFERRED}],
                       !.stat = StatRecord(@, "deferred")]
        ELSE LET l == lock_feed_id(m, feed_id)
             IN  [l EXCEPT !.queue = Append(@, FeedItem(feed_id))]

\* _erase_state_for_feed_id with the test `erased_state == DEFERRED` written as
\* `erased_state & DEFERRED`
erase_state_any_deferred(m, feed_id, flag_to_erase) ==
  LET task_state == m.map[feed_id]
      erased_state == task_state \ {flag_to_erase}
  IN  IF task_state = EMPTY
        THEN m
        ELSE IF DEFERRED \in erased_state
          THEN LET l == lock_feed_id(m, feed_id)
               IN  [l EXCEPT !.queue = Append(@, IdItem(feed_id)),
                             !.stat = StatRecord(@, "resubmitted")]
          ELSE [m EXCEPT !.map = [@ EXCEPT ![feed_id] = erased_state]]

\* _erase_state_for_feed_id with the state updated before the resubmission test
erase_state_write_first(m, feed_id, flag_to_erase) ==
  LET task_state == m.map[feed_id]
      erased_state == task_state \ {flag_to_erase}
      u == [m EXCEPT !.map = [@ EXCEPT ![feed_id] = erased_state]]
  IN  IF task_state = EMPTY
        THEN m
        ELSE IF erased_state = {DEFERRED}
          THEN LET l == lock_feed_id(u, feed_id)
               IN  [l EXCEPT !.queue = Append(@, IdItem(feed_id)),
                             !.stat = StatRecord(@, "resubmitted")]
          ELSE u

\* Monitor._erase_state_for_feed_id
erase_state_for_feed_id(m, feed_id, flag_to_erase) ==
  LET task_state == m.map[feed_id]
      erased_state == task_state \ {flag_to_erase}
  IN  IF task_state = EMPTY
        THEN m
        ELSE IF erased_state = {DEFERRED}
          THEN LET l == lock_feed_id(m, feed_id)
               IN  [l EXCEPT !.queue = Append(@, IdItem(feed_id)),
                             !.stat = StatRecord(@, "resubmitted")]
          ELSE [m EXCEPT !.map = [@ EXCEPT ![feed_id] = erased_state]]

\* the classification of lines 264-286 with the `pending` and `done` branches merged
classify_ignoring_timeout(c, timed_out, how) ==
  CASE how = "return" -> c
    [] how = "cancelled" -> StatRecord(c, "cancelled")
    [] OTHER -> StatRecord(c, "unknown_error")

\* Monitor._do_monitor_task, lines 264-286: what the worker records for the
\* detector task it awaited.  `timed_out`: the task was in `pending` and was
\* cancelled by the worker; `how`: the way the awaited task ended.
classify(c, timed_out, how) ==
  CASE how = "return" -> c
    [] how = "cancelled" -> StatRecord(c, IF timed_out THEN "timeout" ELSE "cancelled")
    [] OTHER -> StatRecord(c, IF timed_out THEN "timeout_unknown_error" ELSE "unknown_error")

(***************************************************************************)
(* History of the enqueues, kept for the minimal-interval property.        *)
(***************************************************************************)
Appended(m) == Len(m.queue) > Len(queue)

Track(m, by_submit) ==
  LET f == m.queue[Len(m.queue)].id
  IN  IF Appended(m)
        THEN /\ early' = [early EXCEPT ![f] =
                            @ \/ (lastSubmitEnq[f] >= 0 /\ clock < lastSubmitEnq[f] + minimal_interval)]
             /\ lastSubmitEnq' = IF by_submit THEN [lastSubmitEnq EXCEPT ![f] = clock]
                                 ELSE lastSubmitEnq
        ELSE UNCHANGED <<early, lastSubmitEnq>>

Apply(m) ==
  /\ task_defer_map' = m.map
  /\ timers' = m.timers
  /\ queue' = m.queue
  /\ counter_tier2' = m.stat

Op(op, feed_id, flag) ==
  [op |-> op, id |-> feed_id, flag |-> flag]

NoOp == Op("other", 0, "")

Unborn == [pc |-> "unborn", id |-> 0, is_feed |-> FALSE]
Finished == [pc |-> "finished", id |-> 0, is_feed |-> FALSE]

\* what the detector task of a check has done when the worker stops awaiting it:
\* the outcome it recorded itself (or "none") and the way it ended
DetectorEnds ==
  {[rec |-> "updated", how |-> "return"], [rec |-> "none", how |-> "cancelled"],
   [rec |-> "none", how |-> "exception"]}

(***************************************************************************)
(* The update detector _do_monitor_a_feed.  Optional values are sequences: *)
(* None is <<>> and a value v is <<v>>.  Times are minutes relative to the *)
(* `now` the detector takes when it starts, so now = 0.                    *)
(***************************************************************************)
None == <<>>
Some(v) == <<v>>

\* line 471: at least this many entry hashes are kept
HashFloor == 100

Max(a, b) == IF a >= b THEN a ELSE b
Min(a, b) == IF a <= b THEN a ELSE b

\* itertools.islice(seq, n) as a list
islice(seq, n) ==
  SubSeq(seq, 1, Min(n, Len(seq)))

SeqToSet(seq) == {seq[i] : i \in DOMAIN seq}

\* the elements of seq that satisfy keep, in the order of seq
RECURSIVE FilterSeq(_, _)
FilterSeq(seq, keep) ==
  IF seq = <<>> THEN <<>>
  ELSE (IF Head(seq) \in keep THEN <<Head(seq)>> ELSE <<>>) \o FilterSeq(Tail(seq), keep)

\* inner.utils.calculate_update(old_hashes, entries): an entry is its hash.  The
\* updated entries are the fetched entries whose hash is not stored, in feed
\* order; the new hashes are those of the fetched entries, then the stored
\* hashes not fetched again.
calculate_update(old_hashes, entries) ==
  LET old == IF old_hashes = None THEN <<>> ELSE old_hashes[1]
  IN  [new_hashes |-> entries \o FilterSeq(old, SeqToSet(old) \ SeqToSet(entries)),
       updated_entries |-> FilterSeq(entries, SeqToSet(entries) \ SeqToSet(old))]

\* parsing.utils.html_space_stripper on the titles of the model
html_space_stripper(title) ==
  CASE title = " News " -> "News"
    [] title = "News " -> "News"
    [] OTHER -> title

\* str.isdecimal and int() on the ttl strings of the model
isdecimal(str) == str \in {"5", "30"}
int(str) == IF str = "5" THEN 5 ELSE 30

\* _defer_next_check_as_per_server_side_cache without the comparisons with wr.now
defer_next_check_ignoring_now(wf) ==
  LET rss_d == wf.rss_d[1]
      ttl_str == rss_d.ttl
      ttl_in_second == IF isdecimal(ttl_str) THEN Some(int(ttl_str) * 60) ELSE wf.max_age
  IN  IF wf.expires # None /\ wf.cf_cache_status \in {"HIT", "MISS", "EXPIRED", "REVALIDATED"}
        THEN wf.expires
        ELSE IF rss_d.generator = "RSSHub" /\ rss_d.updated # None
                /\ ttl_in_second # None /\ ttl_in_second[1] > 300
          THEN Some(rss_d.updated[1] + (ttl_in_second[1] \div 60))
          ELSE None

\* _defer_next_check_as_per_server_side_cache(wf), with wr.now = 0
defer_next_check_as_per_server_side_cache(wf) ==
  LET rss_d == wf.rss_d[1]
      ttl_str == rss_d.ttl
      ttl_in_second == IF isdecimal(ttl_str) THEN Some(int(ttl_str) * 60) ELSE wf.max_age
  IN  IF wf.expires # None /\ wf.cf_cache_status \in {"HIT", "MISS", "EXPIRED", "REVALIDATED"}
         /\ wf.expires[1] > 0
        THEN wf.expires
        ELSE IF rss_d.generator = "RSSHub" /\ rss_d.updated # None
                /\ ttl_in_second # None /\ ttl_in_second[1] > 300
                /\ rss_d.updated[1] + (ttl_in_second[1] \div 60) > 0
          THEN Some(rss_d.updated[1] + (ttl_in_second[1] \div 60))
          ELSE None

\* the back-off of line 433 without the cap of 5 on the multiplier
next_check_interval_uncapped(interval, error_count) ==
  Min(interval, 15) * ((error_count \div 10) + 1)

\* line 433: min(interval, 15) * min(feed.error_count // 10 + 1, 5)
next_check_interval(interval, error_count) ==
  Min(interval, 15) * Min((error_count \div 10) + 1, 5)

\* the try body with the test of `rss_d is None` placed before the test of 304
try_body_error_first(d, fd, wf, default_interval) ==
  LET ec == fd.error_count + 1
  IN  [d |-> [d EXCEPT !.no_error = FALSE, !.after = "return",
                       !.feed_updated_fields = @ \cup {"error_count"}],
       feed |-> [fd EXCEPT !.error_count = ec],
       tag |-> IF ec >= 100 THEN "none" ELSE "failed",
       next |-> IF ec >= 100 THEN "deactivate" ELSE "finally"]

\* The body of the try statement, lines 414-472, up to its return, to the await
\* of the deactivation (line 428) or to its end.  d holds the locals of the
\* detector, fd the feed object; `tag` is the outcome recorded on the way.
try_body(d, fd, wf, default_interval) ==
  IF wf.status = 304
    THEN [d |-> [d EXCEPT !.after = "return"], feed |-> fd, tag |-> "cached", next |-> "finally"]
  ELSE IF wf.rss_d = None
    THEN LET ec == fd.error_count + 1
             fe == [fd EXCEPT !.error_count = ec]
             de == [d EXCEPT !.no_error = FALSE, !.after = "return",
                             !.feed_updated_fields = @ \cup {"error_count"}]
             interval == IF fd.interval # None /\ fd.interval[1] # 0
                         THEN fd.interval[1] ELSE default_interval
             nci == next_check_interval(interval, ec)
         IN  IF ec >= 100
               THEN [d |-> de, feed |-> fe, tag |-> "none", next |-> "deactivate"]
               ELSE [d |-> IF ec >= 10 /\ nci > interval
                           THEN [de EXCEPT !.new_next_check_time = Some(0 + nci)]
                           ELSE de,
                     feed |-> fe, tag |-> "failed", next |-> "finally"]
  ELSE LET rss_d == wf.rss_d[1]
           etag_new == wf.etag # None /\ wf.etag # fd.etag
           f1 == IF etag_new THEN [fd EXCEPT !.etag = wf.etag] ELSE fd
           d1 == [d EXCEPT !.feed_updated_fields = IF etag_new THEN @ \cup {"etag"} ELSE @,
                           !.new_next_check_time = defer_next_check_as_per_server_side_cache(wf),
                           !.after = "return"]
           title == IF rss_d.title # None /\ rss_d.title[1] # ""
                    THEN html_space_stripper(rss_d.title[1]) ELSE ""
           title_new == title # f1.title
           f2 == IF title_new THEN [f1 EXCEPT !.title = title] ELSE f1
           d2 == [d1 EXCEPT !.feed_updated_fields = IF title_new THEN @ \cup {"title"} ELSE @]
           upd == calculate_update(f2.entry_hashes, rss_d.entries)
           kept == islice(upd.new_hashes, Max(Len(rss_d.entries) * 2, HashFloor))
       IN  IF rss_d.entries = <<>>
             THEN [d |-> d1, feed |-> f1, tag |-> "empty", next |-> "finally"]
           ELSE IF upd.updated_entries = <<>>
             THEN [d |-> d2, feed |-> f2, tag |-> "not_updated", next |-> "finally"]
           ELSE [d |-> [d2 EXCEPT !.feed_updated_fields = @ \cup {"last_modified", "entry_hashes"},
                                  !.updated_entries = upd.updated_entries,
                                  !.after = "fanout"],
                 feed |-> [f2 EXCEPT !.last_modified = wf.last_modified,
                                     !.entry_hashes = IF kept = <<>> THEN None ELSE Some(kept)],
                 tag |-> "none", next |-> "finally"]

\* the finally block without the reset of error_count of lines 475-477
finally_enter_without_reset(d, fd) ==
  [d |-> [d EXCEPT !.pc = IF d.no_error /\ d.url # fd.link
                          THEN "await_migrate" ELSE "finally_rest"],
   feed |-> fd]

\* The finally block, lines 474-480, up to the await of migrate_to_new_url
finally_enter(d, fd) ==
  LET reset == d.no_error /\ fd.error_count > 0
  IN  [d |-> [d EXCEPT !.feed_updated_fields = IF reset THEN @ \cup {"error_count"} ELSE @,
                       !.pc = IF d.no_error /\ d.url # fd.link
                              THEN "await_migrate" ELSE "finally_rest"],
       feed |-> IF reset THEN [fd EXCEPT !.error_count = 0] ELSE fd]

\* The finally block, lines 482-487, up to the await of feed.save, and what
\* follows the block when there is nothing to save
finally_rest(d, fd) ==
  LET changed == d.new_next_check_time # fd.next_check_time
      dirty == IF changed THEN d.feed_updated_fields \cup {"next_check_time"}
               ELSE d.feed_updated_fields
  IN  [d |-> [d EXCEPT !.feed_updated_fields = dirty,
                       !.pc = IF dirty # {} THEN "await_save" ELSE "finally_exit"],
       feed |-> IF changed THEN [fd EXCEPT !.next_check_time = d.new_next_check_time] ELSE fd]

\* a save that leaves entry_hashes out of the fields it writes
save_without_hashes(row, fd, update_fields) ==
  [k \in DOMAIN row |-> IF k \in update_fields \ {"entry_hashes"} THEN fd[k] ELSE row[k]]

\* feed.save(update_fields=...): the row takes the named fields of the object
save(row, fd, update_fields) ==
  [k \in DOMAIN row |-> IF k \in update_fields THEN fd[k] ELSE row[k]]

(***************************************************************************)
(* The inputs of a check.                                                  *)
(***************************************************************************)
\* the feed when the check starts
FeedsAtStart ==
  [link : {"u1"}, title : {"News"}, etag : {Some("e1")}, last_modified : {None},
   entry_hashes : {None, Some(<<1>>)}, error_count : {0, 3, 9, 99},
   next_check_time : {None, Some(-3), Some(7)}, interval : {None, Some(10)}]

\* feed.subs.filter(state=1): the user ids of the active subs
SubsResults == {{}, {1}}

\* db.EffectiveOptions.default_interval
DefaultIntervals == {10}

\* what a parsed fetch says about caching: the response's expires, cf-cache-status
\* and max-age (seconds), and the feed's generator, updated and ttl
CacheHints ==
  {[expires |-> None, cf_cache_status |-> "", max_age |-> None,
    generator |-> "", updated |-> None, ttl |-> ""],
   [expires |-> Some(20), cf_cache_status |-> "HIT", max_age |-> None,
    generator |-> "", updated |-> None, ttl |-> ""],
   [expires |-> Some(-1), cf_cache_status |-> "HIT", max_age |-> None,
    generator |-> "", updated |-> None, ttl |-> ""],
   [expires |-> Some(20), cf_cache_status |-> "DYNAMIC", max_age |-> None,
    generator |-> "RSSHub", updated |-> Some(-2), ttl |-> "30"],
   [expires |-> None, cf_cache_status |-> "", max_age |-> None,
    generator |-> "RSSHub", updated |-> Some(-40), ttl |-> "30"],
   [expires |-> None, cf_cache_status |-> "", max_age |-> Some(600),
    generator |-> "RSSHub", updated |-> Some(-2), ttl |-> ""],
   [expires |-> None, cf_cache_status |-> "", max_age |-> Some(600),
    generator |-> "RSSHub", updated |-> Some(-2), ttl |-> "5"]}

\* rss_d of a fetch that parsed
RssResult(title, entries, h) ==
  [title |-> title, entries |-> entries, generator |-> h.generator, updated |-> h.updated,
   ttl |-> h.ttl]

\* web.feed_get: a 304, a failure, or a parsed feed
FetchResults ==
  [status : {304}, rss_d : {None}, url : {"u1", "u2"}, etag : {None}, last_modified : {None},
   expires : {None}, cf_cache_status : {""}, max_age : {None}]
  \cup
  [status : {500}, rss_d : {None}, url : {"u1"}, etag : {None}, last_modified : {None},
   expires : {None}, cf_cache_status : {""}, max_age : {None}]
  \cup
  {[status |-> 200, rss_d |-> Some(RssResult(title, entries, h)), url |-> url, etag |-> etag,
    last_modified |-> Some(-1), expires |-> h.expires, cf_cache_status |-> h.cf_cache_status,
    max_age |-> h.max_age] :
     title \in {Some("News"), Some(" News ")}, entries \in {<<>>, <<1>>, <<2, 1>>},
     url \in {"u1", "u2"}, etag \in {None, Some("e2")}, h \in CacheHints}

\* how an awaited call ends
Awaited == {"ok", "exception", "cancelled"}

\* the detector before its task exists
NoDetector ==
  [pc |-> "none", no_error |-> TRUE, new_next_check_time |-> None, feed_updated_fields |-> {},
   after |-> "", url |-> "", status |-> 0, subs |-> {}, updated_entries |-> <<>>, how |-> "",
   must_cancel |-> FALSE]

NoFeed ==
  [link |-> "", title |-> "", etag |-> None, last_modified |-> None, entry_hashes |-> None,
   error_count |-> 0, next_check_time |-> None, interval |-> None]

NoHist ==
  [feed0 |-> NoFeed, saves |-> <<>>, migrations |-> 0, deactivations |-> 0, fanouts |-> 0,
   notices |-> {}]

\* the state of the check in the specifications that run no detector
CheckIdle ==
  /\ feed = NoFeed
  /\ stored = NoFeed
  /\ det = NoDetector
  /\ hist = NoHist

(***************************************************************************)
(* The delivery: subs, users and the blocked-user handler.                 *)
(***************************************************************************)
\* number of updated entries of the fan-out
MaxEntries == 2
\* number of blocked-style failures of a user in a behaviour
MaxStreak == 7

\* the active subs of the feed, by user id
Subs == {1, 2}
\* the users of the blocked-user handler
Users == {1, 2}

\* line 566: the failures tolerated before a user counts as having blocked the bot
BlockedTolerance == 5

\* the state of the fan-out in the specifications that run none
FanIdle ==
  /\ notify = <<>>
  /\ send = <<>>
  /\ startLog = <<>>
  /\ sendLog = [u \in Subs |-> <<>>]

BlkOp(op, u, coalesced) ==
  [op |-> op, u |-> u, coalesced |-> coalesced]

\* the dispatcher in the specifications that start after Monitor.init: one task, waiting
\* in self._queue.get()
LifeRunning ==
  /\ bg_tasks = <<"waiting">>
  /\ bg_task = 1

\* MonitoringStat.__init__, lines 63-68, but for the tier-2 counter
StatIdle ==
  /\ counter_tier1 = MonitoringCounter
  /\ tier1_last_summary_time = None
  /\ tier2_last_summary_time = None
  /\ loop_time = 0
  /\ recorded = MonitoringCounter
  /\ emitted1 = MonitoringCounter
  /\ emitted2 = MonitoringCounter
  /\ lastStat = "init"

\* the state of the handler when the process starts
InitBlk ==
  /\ blocked_counter = [u \in Users |-> 0]
  /\ unsub_lock = [u \in Users |-> FALSE]
  /\ unsubbing = [u \in Users |-> 0]
  /\ streak = [u \in Users |-> 0]
  /\ overlap = [u \in Users |-> FALSE]
  /\ unsub_at = [u \in Users |-> <<>>]
  /\ lastBlk = BlkOp("none", 0, FALSE)

(***************************************************************************)
(* Init and the actions of the monitor.                                    *)
(***************************************************************************)
InitSched(n) ==
  /\ minimal_interval \in Intervals
  /\ clock = 0
  /\ task_defer_map = [f \in Feeds |-> EMPTY]
  /\ queue = <<>>
  /\ timers = EmptyBag
  /\ worker = [w \in 1..n |-> Unborn]
  /\ counter_tier2 = MonitoringCounter
  /\ submits = 0
  /\ lastOp = NoOp
  /\ lastSubmitEnq = [f \in Feeds |-> -1]
  /\ early = [f \in Feeds |-> FALSE]

\* time passes
Tick ==
  /\ clock < MaxTime
  /\ clock' = clock + 1
  /\ lastOp' = NoOp
  /\ UNCHANGED <<minimal_interval, task_defer_map, queue, timers, worker, counter_tier2,
                 submits, lastSubmitEnq, early>>
  /\ UNCHANGED <<checkVars, fanVars, blkVars, lifeVars, statVars>>

\* run_periodic_task (or any other caller) calls submit_feed(feed)
SubmitFeed(f) ==
  /\ submits < MaxSubmits
  /\ submits' = submits + 1
  /\ LET m == submit_feed(Cur, f)
     IN  Apply(m) /\ Track(m, TRUE)
  /\ lastOp' = Op("submit", f, "")
  /\ UNCHANGED <<minimal_interval, clock, worker>>
  /\ UNCHANGED <<checkVars, fanVars, blkVars, lifeVars, statVars>>

\* the call_later callback of _lock_feed_id fires: _erase_state_for_feed_id(id, LOCKED)
TimerFires(t) ==
  /\ BagIn(t, timers)
  /\ t.due <= clock
  /\ LET m == erase_state_for_feed_id([Cur EXCEPT !.timers = @ (-) SetToBag({t})], t.id, LOCKED)
     IN  Apply(m) /\ Track(m, FALSE)
  /\ lastOp' = Op("erase", t.id, LOCKED)
  /\ UNCHANGED <<minimal_interval, clock, worker, submits>>
  /\ UNCHANGED <<checkVars, fanVars, blkVars, lifeVars, statVars>>

\* Monitor._create_bg_task: one iteration of the dispatcher loop
Dispatch(w) ==
  /\ queue # <<>>
  /\ worker[w].pc = "unborn"
  /\ \A v \in Workers : v < w => worker[v].pc # "unborn"
  /\ worker' = [worker EXCEPT ![w] = [pc |-> "created", id |-> Head(queue).id,
                                      is_feed |-> Head(queue).is_feed]]
  /\ queue' = Tail(queue)
  /\ lastOp' = NoOp
  /\ UNCHANGED <<minimal_interval, clock, task_defer_map, timers, counter_tier2, submits,
                 lastSubmitEnq, early>>
  /\ UNCHANGED <<checkVars, fanVars, blkVars, lifeVars, statVars>>

\* _do_monitor_task, lines 239-245 and 260-263: the task starts, sets IN_PROGRESS
\* and suspends in the lookup of the feed (bare id) or in asyncio.wait.  The loop
\* starts the tasks in the order of their creation.
WorkerStart(w) ==
  /\ worker[w].pc = "created"
  /\ \A v \in Workers : v < w => worker[v].pc # "created"
  /\ task_defer_map' = [task_defer_map EXCEPT ![worker[w].id] = @ \cup {IN_PROGRESS}]
  /\ worker' = [worker EXCEPT ![w].pc = IF worker[w].is_feed THEN "waiting" ELSE "lookup"]
  /\ lastOp' = NoOp
  /\ UNCHANGED <<minimal_interval, clock, queue, timers, counter_tier2, submits,
                 lastSubmitEnq, early>>
  /\ UNCHANGED <<checkVars, fanVars, blkVars, lifeVars, statVars>>

\* _do_monitor_task, lines 245-249 and 260-263: db.Feed.get_or_none returns
WorkerLookup(w, found) ==
  /\ worker[w].pc = "lookup"
  /\ IF found
       THEN /\ worker' = [worker EXCEPT ![w].pc = "waiting"]
            /\ UNCHANGED task_defer_map
       ELSE /\ worker' = [worker EXCEPT ![w] = Finished]
            /\ task_defer_map' = [task_defer_map EXCEPT ![worker[w].id] = EMPTY]
  /\ lastOp' = NoOp
  /\ UNCHANGED <<minimal_interval, clock, queue, timers, counter_tier2, submits,
                 lastSubmitEnq, early>>
  /\ UNCHANGED <<checkVars, fanVars, blkVars, lifeVars, statVars>>

\* _do_monitor_task, lines 260-263, 278-291: asyncio.wait returns with the detector
\* in `done`; the worker classifies its end and erases IN_PROGRESS
WorkerDone(w, d) ==
  /\ worker[w].pc = "waiting"
  /\ LET c == classify(StatRecord(counter_tier2, d.rec), FALSE, d.how)
         m == erase_state_for_feed_id([Cur EXCEPT !.stat = c], worker[w].id, IN_PROGRESS)
     IN  Apply(m) /\ Track(m, FALSE)
  /\ worker' = [worker EXCEPT ![w] = Finished]
  /\ lastOp' = Op("erase", worker[w].id, IN_PROGRESS)
  /\ UNCHANGED <<minimal_interval, clock, submits>>
  /\ UNCHANGED <<checkVars, fanVars, blkVars, lifeVars, statVars>>

\* _do_monitor_task, lines 260-267: asyncio.wait returns after TIMEOUT with the
\* detector in `pending`; the worker cancels it and awaits its unwinding.
\* (The timeout is not measured against the clock: it may come at any time.)
WorkerTimeout(w) ==
  /\ worker[w].pc = "waiting"
  /\ worker' = [worker EXCEPT ![w].pc = "cancelling"]
  /\ lastOp' = NoOp
  /\ UNCHANGED <<minimal_interval, clock, task_defer_map, queue, timers, counter_tier2,
                 submits, lastSubmitEnq, early>>
  /\ UNCHANGED <<checkVars, fanVars, blkVars, lifeVars, statVars>>

\* _do_monitor_task, lines 267-276, 290-291: the cancelled detector has unwound
WorkerUnwound(w, d) ==
  /\ worker[w].pc = "cancelling"
  /\ LET c == classify(StatRecord(counter_tier2, d.rec), TRUE, d.how)
         m == erase_state_for_feed_id([Cur EXCEPT !.stat = c], worker[w].id, IN_PROGRESS)
     IN  Apply(m) /\ Track(m, FALSE)
  /\ worker' = [worker EXCEPT ![w] = Finished]
  /\ lastOp' = Op("erase", worker[w].id, IN_PROGRESS)
  /\ UNCHANGED <<minimal_interval, clock, submits>>
  /\ UNCHANGED <<checkVars, fanVars, blkVars, lifeVars, statVars>>

\* every step but the passing of time
Work ==
  \/ \E f \in Feeds : SubmitFeed(f)
  \/ \E t \in BagToSet(timers) : TimerFires(t)
  \/ \E w \in Workers : Dispatch(w)
  \/ \E w \in Workers : WorkerStart(w)
  \/ \E w \in Workers, found \in BOOLEAN : WorkerLookup(w, found)
  \/ \E w \in Workers, d \in DetectorEnds : WorkerDone(w, d)
  \/ \E w \in Workers : WorkerTimeout(w)
  \/ \E w \in Workers, d \in DetectorEnds : WorkerUnwound(w, d)

Next ==
  \/ Tick
  \/ Work

Init == InitSched(MaxWorkers) /\ CheckIdle /\ FanIdle /\ InitBlk /\ LifeRunning /\ StatIdle

\* Spec: the loop may run its ready callbacks (the dispatcher, a new task, a due
\* timer) arbitrarily late.
Spec == Init /\ [][Next]_vars

\* nothing is ready to run: the dispatcher has emptied the queue, every created
\* task has started and no timer is due
Quiet ==
  /\ queue = <<>>
  /\ \A w \in Workers : worker[w].pc # "created"
  /\ \A t \in BagToSet(timers) : t.due > clock

TickQuiet ==
  /\ Quiet
  /\ Tick

NextPrompt ==
  \/ TickQuiet
  \/ Work

InitPrompt == InitSched(MaxPromptWorkers) /\ CheckIdle /\ FanIdle /\ InitBlk /\ LifeRunning /\ StatIdle

\* SpecPrompt: the behaviours of Spec in which the loop is never late by a
\* minute: what is ready runs before the clock advances.
SpecPrompt == InitPrompt /\ [][NextPrompt]_vars

\* a minute passes while an unlock timer is waiting for it
TickPending ==
  /\ \E t \in BagToSet(timers) : t.due > clock
  /\ clock' = clock + 1
  /\ lastOp' = NoOp
  /\ UNCHANGED <<minimal_interval, task_defer_map, queue, timers, worker, counter_tier2,
                 submits, lastSubmitEnq, early>>
  /\ UNCHANGED <<checkVars, fanVars, blkVars, lifeVars, statVars>>

\* submit_feed, called no more often than there are workers to spawn
SubmitSome(f) ==
  /\ submits < MaxWorkers
  /\ SubmitFeed(f)

InitQuiesce ==
  /\ Init
  /\ minimal_interval > 1

\* the monitor with every dequeued id found in the store
NextQuiesce ==
  \/ \E f \in Feeds : SubmitSome(f)
  \/ \E t \in BagToSet(timers) : TimerFires(t)
  \/ \E w \in Workers : Dispatch(w)
  \/ \E w \in Workers : WorkerStart(w)
  \/ \E w \in Workers : WorkerLookup(w, TRUE)
  \/ \E w \in Workers, d \in DetectorEnds : WorkerDone(w, d)
  \/ \E w \in Workers : WorkerTimeout(w)
  \/ \E w \in Workers, d \in DetectorEnds : WorkerUnwound(w, d)
  \/ TickPending

\* SpecQuiesce: the loop runs what is ready (the dispatcher, the tasks, the due timers),
\* time passes, and every detector ends, by itself or by unwinding
SpecQuiesce ==
  /\ InitQuiesce
  /\ [][NextQuiesce]_vars
  /\ WF_vars(\E t \in BagToSet(timers) : TimerFires(t))
  /\ WF_vars(\E w \in Workers : Dispatch(w))
  /\ WF_vars(\E w \in Workers : WorkerStart(w))
  /\ WF_vars(\E w \in Workers : WorkerLookup(w, TRUE))
  /\ WF_vars(\E w \in Workers, d \in DetectorEnds : WorkerDone(w, d))
  /\ WF_vars(\E w \in Workers, d \in DetectorEnds : WorkerUnwound(w, d))
  /\ WF_vars(TickPending)

(***************************************************************************)
(* One feed check: the worker of the dequeued item and its detector task.  *)
(***************************************************************************)
\* the table after the item of the check was enqueued: by submit_feed (a Feed
\* object) or by a resubmission (a bare id)
TableAtDequeue(is_feed) ==
  IF minimal_interval > 1 THEN {LOCKED}
  ELSE IF is_feed THEN EMPTY ELSE {IN_PROGRESS, DEFERRED}

InitCheck ==
  /\ minimal_interval \in Intervals
  /\ clock = 0
  /\ \E is_feed \in BOOLEAN :
       /\ worker = [w \in {1} |-> [pc |-> "created", id |-> 1, is_feed |-> is_feed]]
       /\ task_defer_map = [f \in Feeds |-> IF f = 1 THEN TableAtDequeue(is_feed) ELSE EMPTY]
  /\ queue = <<>>
  /\ timers = IF minimal_interval > 1 THEN SetToBag({UnlockTimer(1)}) ELSE EmptyBag
  /\ counter_tier2 = MonitoringCounter
  /\ submits = 1
  /\ lastOp = NoOp
  /\ lastSubmitEnq = [f \in Feeds |-> IF f = 1 THEN 0 ELSE -1]
  /\ early = [f \in Feeds |-> FALSE]
  /\ feed \in FeedsAtStart
  /\ stored = feed
  /\ det = NoDetector
  /\ hist = [NoHist EXCEPT !.feed0 = feed]
  /\ FanIdle
  /\ InitBlk
  /\ LifeRunning
  /\ StatIdle

\* the detector task ends: it returned, or raised `how`
Ended(d, how) ==
  [d EXCEPT !.pc = "done", !.how = how, !.must_cancel = FALSE]

\* what follows the finally block: the pending return or exception, or line 489
finally_exit(d) ==
  IF d.after = "fanout" THEN [d EXCEPT !.pc = "await_fanout"] ELSE Ended(d, d.after)

\* the finally block from line 482 on, to its next await or through its end
FinallyFromRest(d, fd) ==
  LET r == finally_rest(d, fd)
  IN  [d |-> IF r.d.pc = "await_save" THEN r.d ELSE finally_exit(r.d), feed |-> r.feed]

\* the finally block from its start, to its next await or through its end
RunFinally(d, fd) ==
  LET e == finally_enter(d, fd)
  IN  IF e.d.pc = "await_migrate" THEN e ELSE FinallyFromRest(e.d, e.feed)

SetCheck(r) ==
  /\ det' = r.d
  /\ feed' = r.feed

CheckFrame ==
  UNCHANGED <<minimal_interval, clock, queue, timers, submits, lastSubmitEnq, early, fanVars,
              blkVars, lifeVars, statVars>>

\* the result r of an await of the detector: a pending cancellation is what it gets
Delivered(r) ==
  det.must_cancel => r = "cancelled"

\* _do_monitor_task, lines 239-245, 260-263: the worker starts
CkStart ==
  /\ worker[1].pc = "created"
  /\ task_defer_map' = [task_defer_map EXCEPT ![worker[1].id] = @ \cup {IN_PROGRESS}]
  /\ worker' = [worker EXCEPT ![1].pc = IF worker[1].is_feed THEN "waiting" ELSE "lookup"]
  /\ det' = IF worker[1].is_feed THEN [det EXCEPT !.pc = "created"] ELSE det
  /\ lastOp' = NoOp
  /\ CheckFrame
  /\ UNCHANGED <<counter_tier2, feed, stored, hist>>

\* _do_monitor_task, lines 245-249, 260-263: db.Feed.get_or_none returns
CkLookup(found) ==
  /\ worker[1].pc = "lookup"
  /\ IF found
       THEN /\ worker' = [worker EXCEPT ![1].pc = "waiting"]
            /\ det' = [det EXCEPT !.pc = "created"]
            /\ UNCHANGED task_defer_map
       ELSE /\ worker' = [worker EXCEPT ![1] = Finished]
            /\ task_defer_map' = [task_defer_map EXCEPT ![worker[1].id] = EMPTY]
            /\ UNCHANGED det
  /\ lastOp' = NoOp
  /\ CheckFrame
  /\ UNCHANGED <<counter_tier2, feed, stored, hist>>

\* _do_monitor_a_feed, lines 385-390: the task starts; skip by schedule
DetStart ==
  /\ det.pc = "created"
  /\ IF det.must_cancel
       THEN /\ det' = Ended(det, "cancelled")
            /\ UNCHANGED counter_tier2
       ELSE IF feed.next_check_time # None /\ 0 < feed.next_check_time[1]
         THEN /\ det' = Ended(det, "return")
              /\ counter_tier2' = StatRecord(counter_tier2, "skipped")
         ELSE /\ det' = [det EXCEPT !.pc = "await_subs"]
              /\ UNCHANGED counter_tier2
  /\ lastOp' = NoOp
  /\ CheckFrame
  /\ UNCHANGED <<task_defer_map, worker, feed, stored, hist>>

\* lines 390-407: feed.subs.filter returns; no subs, or all of them in flood wait
DetSubs(r, subs, all_locked) ==
  /\ det.pc = "await_subs"
  /\ Delivered(r)
  /\ IF r # "ok"
       THEN /\ det' = Ended(det, r)
            /\ UNCHANGED counter_tier2
       ELSE IF subs = {}
         THEN /\ det' = [det EXCEPT !.pc = "await_update_interval"]
              /\ UNCHANGED counter_tier2
         ELSE IF all_locked
           THEN /\ det' = Ended(det, "return")
                /\ counter_tier2' = StatRecord(counter_tier2, "skipped")
           ELSE /\ det' = [det EXCEPT !.pc = "await_fetch", !.subs = subs]
                /\ UNCHANGED counter_tier2
  /\ lastOp' = NoOp
  /\ CheckFrame
  /\ UNCHANGED <<task_defer_map, worker, feed, stored, hist>>

\* lines 393-395: inner.utils.update_interval returns
DetUpdateInterval(r) ==
  /\ det.pc = "await_update_interval"
  /\ Delivered(r)
  /\ IF r # "ok"
       THEN /\ det' = Ended(det, r)
            /\ UNCHANGED counter_tier2
       ELSE /\ det' = Ended(det, "return")
            /\ counter_tier2' = StatRecord(counter_tier2, "skipped")
  /\ lastOp' = NoOp
  /\ CheckFrame
  /\ UNCHANGED <<task_defer_map, worker, feed, stored, hist>>

\* lines 407-487: web.feed_get returns; the try body, then the finally block up
\* to its first await
DetFetch(r, wf, default_interval) ==
  /\ det.pc = "await_fetch"
  /\ Delivered(r)
  /\ IF r # "ok"
       THEN /\ det' = Ended(det, r)
            /\ UNCHANGED <<counter_tier2, feed>>
       ELSE LET d0 == [det EXCEPT !.url = wf.url, !.status = wf.status]
                tb == try_body(d0, feed, wf, default_interval)
            IN  /\ counter_tier2' = StatRecord(counter_tier2, tb.tag)
                /\ IF tb.next = "deactivate"
                     THEN SetCheck([d |-> [tb.d EXCEPT !.pc = "await_deactivate"], feed |-> tb.feed])
                     ELSE SetCheck(RunFinally(tb.d, tb.feed))
  /\ hist' = IF det'.pc = "await_fanout" THEN [hist EXCEPT !.fanouts = @ + 1] ELSE hist
  /\ lastOp' = NoOp
  /\ CheckFrame
  /\ UNCHANGED <<task_defer_map, worker, stored>>

\* lines 428, 578-581: inner.utils.deactivate_feed returns or raises; the feed this
\* detector checks has active subs (line 390)
DetDeactivate(r) ==
  /\ det.pc = "await_deactivate"
  /\ Delivered(r)
  /\ IF r = "ok"
       THEN /\ IF det.subs = {}
                 THEN /\ counter_tier2' = StatRecord(counter_tier2, "failed")
                      /\ SetCheck(RunFinally([det EXCEPT !.after = "return"], feed))
                 ELSE /\ det' = [det EXCEPT !.pc = "await_langs"]
                      /\ UNCHANGED <<counter_tier2, feed>>
            /\ hist' = [hist EXCEPT !.deactivations = @ + 1]
       ELSE /\ SetCheck(RunFinally([det EXCEPT !.after = r, !.must_cancel = FALSE], feed))
            /\ UNCHANGED <<counter_tier2, hist>>
  /\ lastOp' = NoOp
  /\ CheckFrame
  /\ UNCHANGED <<task_defer_map, worker, stored>>

\* lines 583-585: the gather of the languages of the subs returns or raises
DetLangs(r) ==
  /\ det.pc = "await_langs"
  /\ Delivered(r)
  /\ IF r = "ok"
       THEN /\ det' = [det EXCEPT !.pc = "await_notices"]
            /\ feed' = feed
            /\ hist' = hist
       ELSE /\ SetCheck(RunFinally([det EXCEPT !.after = r, !.must_cancel = FALSE], feed))
            /\ hist' = hist
  /\ lastOp' = NoOp
  /\ CheckFrame
  /\ UNCHANGED <<task_defer_map, worker, counter_tier2, stored>>

\* how env.bot.get_input_entity ends: it returns, raises ValueError or raises otherwise
Entities == {"ok", "ValueError", "error"}

\* how the send of a post or message to a user ends: it returns, raises one of
\* UserBlockedErrors, BadRequestError TOPIC_CLOSED, another BadRequestError, any other
\* exception, or runs into the timeout of line 513
Deliveries == {"ok", "blocked", "topic_closed", "bad_request", "error", "timeout"}

\* how a call of the bot ends that reports an error to env.ERROR_LOGGING_CHAT
Reports == {"ok", "error"}

\* lines 544-558 (and 499-511 for a Post that failed to parse): the except block that
\* reports an error.  The log line of 544 reads post.link, which a plain message (a str)
\* does not have; the report of 552 (506) is guarded, the plain message sent when the
\* report fails (557, 509) is not.
error_report(is_str, report, fallback) ==
  IF is_str THEN "raised"
  ELSE IF report = "ok" \/ fallback = "ok" THEN "returned"
  ELSE "raised"

\* what a __send of the notice, a str, ends with (lines 526-558): the handler of blocked
\* users returns, another BadRequestError is dropped, and any other exception reaches
\* the except block of line 543
notice_sent(delivery) ==
  IF delivery = "error" THEN error_report(TRUE, "ok", "ok") ELSE "returned"

\* what the __send of a notice meets; no timeout is set on it
NoticeEnds == (Entities \cup Deliveries) \ {"timeout"}

\* lines 587-602, 429-430, 473-487: the gather of the __send of the notices ends, or the
\* detector is cancelled in it; deliveries[u] is what the send to user u meets
DetNotices(r, deliveries) ==
  /\ det.pc = "await_notices"
  /\ Delivered(r)
  /\ IF r = "cancelled"
       THEN /\ SetCheck(RunFinally([det EXCEPT !.after = r, !.must_cancel = FALSE], feed))
            /\ UNCHANGED <<counter_tier2, hist>>
       ELSE /\ hist' = [hist EXCEPT !.notices = DOMAIN deliveries]
            /\ IF \E u \in DOMAIN deliveries : notice_sent(deliveries[u]) = "raised"
                 THEN /\ SetCheck(RunFinally([det EXCEPT !.after = "exception"], feed))
                      /\ UNCHANGED counter_tier2
                 ELSE /\ counter_tier2' = StatRecord(counter_tier2, "failed")
                      /\ SetCheck(RunFinally([det EXCEPT !.after = "return"], feed))
  /\ lastOp' = NoOp
  /\ CheckFrame
  /\ UNCHANGED <<task_defer_map, worker, stored>>

\* lines 479-487: inner.sub.migrate_to_new_url returns a Feed (adopted), something
\* else, or raises
DetMigrate(r, adopt) ==
  /\ det.pc = "await_migrate"
  /\ Delivered(r)
  /\ IF r # "ok"
       THEN /\ det' = Ended(det, r)
            /\ UNCHANGED <<feed, hist>>
       ELSE /\ SetCheck(FinallyFromRest(det, IF adopt THEN [feed EXCEPT !.link = det.url] ELSE feed))
            /\ hist' = [hist EXCEPT !.migrations = @ + 1,
                                    !.fanouts = IF det'.pc = "await_fanout" THEN @ + 1 ELSE @]
  /\ lastOp' = NoOp
  /\ CheckFrame
  /\ UNCHANGED <<task_defer_map, worker, counter_tier2, stored>>

\* lines 486-489: feed.save returns or raises
DetSave(r) ==
  /\ det.pc = "await_save"
  /\ Delivered(r)
  /\ IF r # "ok"
       THEN /\ det' = Ended(det, r)
            /\ UNCHANGED <<stored, hist>>
       ELSE /\ det' = finally_exit(det)
            /\ stored' = save(stored, feed, det.feed_updated_fields)
            /\ hist' = [hist EXCEPT !.saves = Append(@, det.feed_updated_fields),
                                    !.fanouts = IF det'.pc = "await_fanout" THEN @ + 1 ELSE @]
  /\ lastOp' = NoOp
  /\ CheckFrame
  /\ UNCHANGED <<task_defer_map, worker, counter_tier2, feed>>

\* lines 489-491: the gather of the __notify_all coroutines returns or raises
DetFanout(r) ==
  /\ det.pc = "await_fanout"
  /\ Delivered(r)
  /\ IF r # "ok"
       THEN /\ det' = Ended(det, r)
            /\ UNCHANGED counter_tier2
       ELSE /\ det' = Ended(det, "return")
            /\ counter_tier2' = StatRecord(counter_tier2, "updated")
  /\ lastOp' = NoOp
  /\ CheckFrame
  /\ UNCHANGED <<task_defer_map, worker, feed, stored, hist>>

\* _do_monitor_task, lines 260-263, 278-291: the detector is in `done`
CkDone ==
  /\ worker[1].pc = "waiting"
  /\ det.pc = "done"
  /\ LET c == classify(counter_tier2, FALSE, det.how)
         m == erase_state_for_feed_id([Cur EXCEPT !.stat = c], worker[1].id, IN_PROGRESS)
     IN  Apply(m) /\ Track(m, FALSE)
  /\ worker' = [worker EXCEPT ![1] = Finished]
  /\ lastOp' = Op("erase", worker[1].id, IN_PROGRESS)
  /\ UNCHANGED <<minimal_interval, clock, submits, checkVars, fanVars, blkVars, lifeVars,
               statVars>>

\* lines 260-267: TIMEOUT passes with the detector in `pending`; task.cancel()
CkTimeout ==
  /\ worker[1].pc = "waiting"
  /\ det.pc # "done"
  /\ worker' = [worker EXCEPT ![1].pc = "cancelling"]
  /\ det' = [det EXCEPT !.must_cancel = TRUE]
  /\ lastOp' = NoOp
  /\ CheckFrame
  /\ UNCHANGED <<task_defer_map, counter_tier2, feed, stored, hist>>

\* line 267 with the await left out: the worker goes on while the task unwinds
await_task_skipped(d) ==
  TRUE

\* line 267: `await task` returns or raises once the task is done
await_task(d) ==
  d.pc = "done"

\* lines 267-276, 290-291: the cancelled detector has unwound
CkUnwound ==
  /\ worker[1].pc = "cancelling"
  /\ await_task(det)
  /\ LET c == classify(counter_tier2, TRUE, det.how)
         m == erase_state_for_feed_id([Cur EXCEPT !.stat = c], worker[1].id, IN_PROGRESS)
     IN  Apply(m) /\ Track(m, FALSE)
  /\ worker' = [worker EXCEPT ![1] = Finished]
  /\ lastOp' = Op("erase", worker[1].id, IN_PROGRESS)
  /\ UNCHANGED <<minimal_interval, clock, submits, checkVars, fanVars, blkVars, lifeVars,
               statVars>>

NextCheck ==
  \/ CkStart
  \/ \E found \in BOOLEAN : CkLookup(found)
  \/ DetStart
  \/ \E r \in Awaited, subs \in SubsResults, all_locked \in BOOLEAN : DetSubs(r, subs, all_locked)
  \/ \E r \in Awaited : DetUpdateInterval(r)
  \/ /\ det.pc = "await_fetch"
     /\ \E r \in Awaited, wf \in FetchResults, di \in DefaultIntervals : DetFetch(r, wf, di)
  \/ \E r \in Awaited : DetDeactivate(r)
  \/ \E r \in Awaited : DetLangs(r)
  \/ \E r \in {"ok", "cancelled"}, deliveries \in [det.subs -> NoticeEnds] : DetNotices(r, deliveries)
  \/ \E r \in Awaited, adopt \in BOOLEAN : DetMigrate(r, adopt)
  \/ \E r \in Awaited : DetSave(r)
  \/ \E r \in Awaited : DetFanout(r)
  \/ CkDone
  \/ CkTimeout
  \/ CkUnwound

\* SpecCheck: one dequeued item, from the start of its worker to the end of it
SpecCheck == InitCheck /\ [][NextCheck]_vars

\* the feeds of the checks of SpecFailing: error counts around the thresholds of
\* lines 424, 426 and 431 and intervals below, between and above the back-off
FeedsFailing ==
  [link : {"u1"}, title : {"News"}, etag : {Some("e1")}, last_modified : {None},
   entry_hashes : {Some(<<1>>)}, error_count : {0, 8, 9, 18, 19, 29, 39, 48, 49, 98, 99},
   next_check_time : {None, Some(-3), Some(7)},
   interval : {None, Some(5), Some(20), Some(60), Some(80)}]

InitFailing ==
  /\ minimal_interval = 1
  /\ clock = 0
  /\ worker = [w \in {1} |-> [pc |-> "created", id |-> 1, is_feed |-> TRUE]]
  /\ task_defer_map = [f \in Feeds |-> IF f = 1 THEN TableAtDequeue(TRUE) ELSE EMPTY]
  /\ queue = <<>>
  /\ timers = EmptyBag
  /\ counter_tier2 = MonitoringCounter
  /\ submits = 1
  /\ lastOp = NoOp
  /\ lastSubmitEnq = [f \in Feeds |-> IF f = 1 THEN 0 ELSE -1]
  /\ early = [f \in Feeds |-> FALSE]
  /\ feed \in FeedsFailing
  /\ stored = feed
  /\ det = NoDetector
  /\ hist = [NoHist EXCEPT !.feed0 = feed]
  /\ FanIdle
  /\ InitBlk
  /\ LifeRunning
  /\ StatIdle

\* the worker of a Feed object: every step of the check but the lookup of a bare id
NextFailing ==
  \/ CkStart
  \/ DetStart
  \/ \E r \in Awaited, subs \in SubsResults, all_locked \in BOOLEAN : DetSubs(r, subs, all_locked)
  \/ \E r \in Awaited : DetUpdateInterval(r)
  \/ /\ det.pc = "await_fetch"
     /\ \E r \in Awaited, wf \in FetchResults, di \in DefaultIntervals : DetFetch(r, wf, di)
  \/ \E r \in Awaited : DetDeactivate(r)
  \/ \E r \in Awaited : DetLangs(r)
  \/ \E r \in {"ok", "cancelled"}, deliveries \in [det.subs -> NoticeEnds] : DetNotices(r, deliveries)
  \/ \E r \in Awaited, adopt \in BOOLEAN : DetMigrate(r, adopt)
  \/ \E r \in Awaited : DetSave(r)
  \/ \E r \in Awaited : DetFanout(r)
  \/ CkDone
  \/ CkTimeout
  \/ CkUnwound

\* SpecFailing: one check of a feed with a history of failed fetches
SpecFailing == InitFailing /\ [][NextFailing]_vars

\* the worker task itself is cancelled (asyncio cancels the remaining tasks when the loop
\* shuts down, lines 213-214).  In the lookup of line 245 the CancelledError leaves the
\* task before the try statement; in asyncio.wait (line 260) it passes `except Exception`
\* and the finally block erases IN_PROGRESS; asyncio.wait does not cancel the detector.
CkCancelled ==
  /\ worker[1].pc \in {"lookup", "waiting"}
  /\ IF worker[1].pc = "lookup"
       THEN UNCHANGED <<task_defer_map, timers, queue, counter_tier2, early, lastSubmitEnq>>
       ELSE LET m == erase_state_for_feed_id(Cur, worker[1].id, IN_PROGRESS)
            IN  Apply(m) /\ Track(m, FALSE)
  /\ worker' = [worker EXCEPT ![1] = Finished]
  /\ lastOp' = Op("cancelled", worker[1].id, IN_PROGRESS)
  /\ UNCHANGED <<minimal_interval, clock, submits, checkVars, fanVars, blkVars, lifeVars,
               statVars>>

NextCancel ==
  \/ NextCheck
  \/ CkCancelled

\* SpecCancel: SpecCheck with a worker that may be cancelled
SpecCancel == InitCheck /\ [][NextCancel]_vars

(***************************************************************************)
(* Properties of the submission / deferral state machine.                  *)
(***************************************************************************)
\* the workers that have set IN_PROGRESS on f and have not finished
InFlight(f) ==
  {w \in Workers : worker[w].id = f /\ worker[w].pc \in {"lookup", "waiting", "cancelling"}}

\* C1 (single-flight): in every reachable state at most one MonitorWorker has set
\* IN_PROGRESS on a feed and not yet finished.
C1_SingleFlight ==
  \A f \in Feeds : Cardinality(InFlight(f)) <= 1

\* C2 (defer safety): a submit_feed(f) called while a flag is set on f appends
\* nothing to the queue, sets DEFERRED on f leaving the other bits and the other
\* feeds as they are, and increments stat.deferred by 1.
C2_DeferSafety ==
  [][\A f \in Feeds :
       (lastOp'.op = "submit" /\ lastOp'.id = f /\ task_defer_map[f] # EMPTY)
         => /\ queue' = queue
            /\ task_defer_map' = [task_defer_map EXCEPT ![f] = @ \cup {DEFERRED}]
            /\ counter_tier2'["deferred"] = counter_tier2["deferred"] + 1]_vars

\* a submit_feed has just been deferred on a feed that was locked and in progress
C2_Witness ==
  /\ lastOp.op = "submit"
  /\ task_defer_map[lastOp.id] = {LOCKED, IN_PROGRESS, DEFERRED}
  /\ counter_tier2["deferred"] = 1
  /\ queue = <<>>

\* C3 (resubmit): with DEFERRED set on f, an erase that clears the last
\* non-DEFERRED flag of f enqueues the id of f exactly once and increments
\* stat.resubmitted by exactly 1; an erase that leaves another non-DEFERRED flag
\* set enqueues nothing.
C3_Resubmit ==
  [][\A f \in Feeds :
       (lastOp'.op = "erase" /\ lastOp'.id = f /\ DEFERRED \in task_defer_map[f])
         => IF lastOp'.flag \in task_defer_map[f]
               /\ task_defer_map[f] \ {lastOp'.flag} = {DEFERRED}
              THEN /\ queue' = Append(queue, IdItem(f))
                   /\ counter_tier2'["resubmitted"] = counter_tier2["resubmitted"] + 1
              ELSE (task_defer_map[f] \ {lastOp'.flag, DEFERRED} # {})
                     => /\ queue' = queue
                        /\ counter_tier2'["resubmitted"] = counter_tier2["resubmitted"]]_vars

\* an erase has just resubmitted a deferred feed, after an earlier erase on the
\* deferred feed had left LOCKED set
C3_Witness ==
  /\ lastOp.op = "erase"
  /\ lastOp.flag = LOCKED
  /\ queue # <<>>
  /\ queue[Len(queue)] = IdItem(lastOp.id)
  /\ counter_tier2["resubmitted"] = 1
  /\ \A w \in Workers : worker[w].pc \in {"unborn", "finished"}

\* C4 (minimal interval): when minimal_interval > 1, no item of f is put on the
\* queue before minimal_interval minutes have passed since the last submit_feed(f)
\* that enqueued f.
C4_MinimalInterval ==
  \A f \in Feeds : minimal_interval > 1 => ~early[f]

\* C10 (invariant I1): DEFERRED is set on a feed only together with LOCKED or
\* IN_PROGRESS; the table never holds exactly {DEFERRED}.
C10_DeferredNeverAlone ==
  \A f \in Feeds :
    DEFERRED \in task_defer_map[f] => task_defer_map[f] \cap {LOCKED, IN_PROGRESS} # {}

\* a deferred feed has just been resubmitted while _lock_feed_id does nothing
C10_Witness ==
  /\ minimal_interval <= 1
  /\ lastOp.op = "erase"
  /\ counter_tier2["resubmitted"] >= 1
  /\ DEFERRED \in task_defer_map[lastOp.id]

(***************************************************************************)
(* Properties of one feed check.                                           *)
(***************************************************************************)
\* the terminal outcomes a counter holds
Outcomes(c) == c["SUM"] - c["deferred"] - c["resubmitted"]

\* C5 (stat exclusivity): a feed check records exactly one terminal outcome, so
\* that SUM has grown by exactly 1 when the worker of the check has finished.
C5_ExactlyOneOutcome ==
  worker[1].pc = "finished" => Outcomes(counter_tier2) = 1

\* C8 as claimed (304 short-circuit): a check whose fetch returned 304 writes no
\* field of the feed, saves nothing and migrates nothing.
C8_NoWriteOn304 ==
  det.status = 304
    => /\ feed = hist.feed0
       /\ stored = hist.feed0
       /\ hist.saves = <<>>
       /\ hist.migrations = 0

\* C8 as amended: a check whose fetch returned 304 records stat.cached, performs
\* no fan-out and never writes etag, last_modified, entry_hashes or title; its
\* finally block may only reset a positive error_count to 0, clear a stored
\* next_check_time, save the fields so changed, and migrate the URL when the
\* fetched url differs from feed.link.  It writes nothing when error_count is 0,
\* next_check_time is none and the url is feed.link.
C8_Only304Resets ==
  det.status = 304
    => /\ counter_tier2["cached"] = 1
       /\ counter_tier2["updated"] = 0
       /\ hist.fanouts = 0
       /\ \A k \in {"etag", "last_modified", "entry_hashes", "title"} :
            feed[k] = hist.feed0[k] /\ stored[k] = hist.feed0[k]
       /\ feed.error_count \in {hist.feed0.error_count, 0}
       /\ stored.error_count \in {hist.feed0.error_count, 0}
       /\ feed.next_check_time \in {hist.feed0.next_check_time, None}
       /\ stored.next_check_time \in {hist.feed0.next_check_time, None}
       /\ \A i \in DOMAIN hist.saves : hist.saves[i] \subseteq {"error_count", "next_check_time"}
       /\ hist.migrations > 0 => det.url # hist.feed0.link
       /\ (hist.feed0.error_count = 0 /\ hist.feed0.next_check_time = None
           /\ det.url = hist.feed0.link)
            => (feed = hist.feed0 /\ stored = hist.feed0 /\ hist.saves = <<>>
                /\ hist.migrations = 0)
       /\ (det.pc = "done" /\ det.how = "return")
            => (stored.error_count = 0 /\ stored.next_check_time = None)

\* a 304 check has finished after it saved a reset error_count and a cleared
\* next_check_time
C8_Witness ==
  /\ det.status = 304
  /\ det.pc = "done"
  /\ hist.feed0.error_count > 0
  /\ hist.feed0.next_check_time # None
  /\ hist.saves = <<{"error_count", "next_check_time"}>>
  /\ stored.error_count = 0
  /\ stored.next_check_time = None

(***************************************************************************)
(* The fan-out of one feed check (line 489) and __notify_all / __send.     *)
(***************************************************************************)
Entries == 1 .. MaxEntries

\* updated_entries = (e1, ..., en), newest first; entry ei is the number i
updated_entries == [k \in Entries |-> k]

\* a mutant of reversed: the entries are iterated in their own order
reversed_forward(seq) ==
  seq

\* line 489: reversed(updated_entries)
reversed(seq) ==
  [k \in 1 .. Len(seq) |-> seq[Len(seq) - k + 1]]

InitFanout ==
  /\ InitSched(MaxWorkers)
  /\ CheckIdle
  /\ InitBlk
  /\ LifeRunning
  /\ StatIdle
  /\ notify = [i \in Entries |-> "created"]
  /\ send = [x \in Entries \X Subs |-> "created"]
  /\ startLog = <<>>
  /\ sendLog = [u \in Subs |-> <<>>]

FanFrame ==
  UNCHANGED <<schedVars, checkVars, blkVars, lifeVars, statVars>>

\* lines 489, 494-497: gather wraps the coroutines in tasks in the order of its arguments and
\* the tasks take their first step in that order, up to the await of get_post_from_entry
NotifyStart(i) ==
  /\ notify[i] = "created"
  /\ i = reversed(updated_entries)[Len(startLog) + 1]
  /\ notify' = [notify EXCEPT ![i] = "await_post"]
  /\ startLog' = Append(startLog, i)
  /\ UNCHANGED <<send, sendLog>>
  /\ FanFrame

\* lines 497-515: the rendering of an entry returns or raises; on success the sends to all
\* subs are gathered and each runs up to the await of get_input_entity (line 528)
PostReady(i, ok) ==
  /\ notify[i] = "await_post"
  /\ IF ok
       THEN /\ notify' = [notify EXCEPT ![i] = "await_sends"]
            /\ send' = [x \in Entries \X Subs |->
                          IF x[1] = i THEN "await_entity" ELSE send[x]]
       ELSE /\ notify' = [notify EXCEPT ![i] = "await_report"]
            /\ send' = send
  /\ UNCHANGED <<startLog, sendLog>>
  /\ FanFrame

\* lines 498-511: the parsing error is reported to the logging chat and the entry is dropped
ReportSent(i) ==
  /\ notify[i] = "await_report"
  /\ notify' = [notify EXCEPT ![i] = "returned"]
  /\ UNCHANGED <<send, startLog, sendLog>>
  /\ FanFrame

\* lines 528-535: the input entity is resolved and the post is sent, or ValueError hands the
\* user to the blocked-user handler and __send returns
EntityResolved(i, u, ok) ==
  /\ send[<<i, u>>] = "await_entity"
  /\ IF ok
       THEN /\ send' = [send EXCEPT ![<<i, u>>] = "await_send"]
            /\ sendLog' = [sendLog EXCEPT ![u] = Append(@, i)]
       ELSE /\ send' = [send EXCEPT ![<<i, u>>] = "returned"]
            /\ sendLog' = sendLog
  /\ UNCHANGED <<notify, startLog>>
  /\ FanFrame

\* lines 535-558: the send of the post returns, raises or times out (line 513)
Sent(i, u) ==
  /\ send[<<i, u>>] = "await_send"
  /\ send' = [send EXCEPT ![<<i, u>>] = "returned"]
  /\ UNCHANGED <<notify, startLog, sendLog>>
  /\ FanFrame

\* lines 512-521: the gather of the sends of one entry returns
NotifyReturn(i) ==
  /\ notify[i] = "await_sends"
  /\ \A u \in Subs : send[<<i, u>>] = "returned"
  /\ notify' = [notify EXCEPT ![i] = "returned"]
  /\ UNCHANGED <<send, startLog, sendLog>>
  /\ FanFrame

NextFanout ==
  \/ \E i \in Entries : NotifyStart(i)
  \/ \E i \in Entries, ok \in BOOLEAN : PostReady(i, ok)
  \/ \E i \in Entries : ReportSent(i)
  \/ \E i \in Entries, u \in Subs, ok \in BOOLEAN : EntityResolved(i, u, ok)
  \/ \E i \in Entries, u \in Subs : Sent(i, u)
  \/ \E i \in Entries : NotifyReturn(i)

SpecFanout == InitFanout /\ [][NextFanout]_vars

(***************************************************************************)
(* The fan-out with the failures of rendering, sending and reporting told  *)
(* apart.  A __send or __notify_all an exception leaves is "raised".       *)
(***************************************************************************)
\* lines 498-511: the rendering failed; the report to the logging chat and, when it
\* fails, the plain message end
ReportEnds(i, report, fallback) ==
  /\ notify[i] = "await_report"
  /\ notify' = [notify EXCEPT ![i] = error_report(FALSE, report, fallback)]
  /\ UNCHANGED <<send, startLog, sendLog>>
  /\ FanFrame

\* lines 526-530, 543: get_input_entity ends
EntityEnds(i, u, entity) ==
  /\ send[<<i, u>>] = "await_entity"
  /\ IF entity = "ok"
       THEN /\ send' = [send EXCEPT ![<<i, u>>] = "await_send"]
            /\ sendLog' = [sendLog EXCEPT ![u] = Append(@, i)]
       ELSE /\ send' = [send EXCEPT ![<<i, u>>] =
                          IF entity = "ValueError" THEN "returned" ELSE "await_report"]
            /\ sendLog' = sendLog
  /\ UNCHANGED <<notify, startLog>>
  /\ FanFrame

\* lines 535-543, 513: the send of the post ends.  The blocked-user errors go to the
\* handler, another BadRequestError is dropped, a timeout ends the __send.
SendEnds(i, u, delivery) ==
  /\ send[<<i, u>>] = "await_send"
  /\ send' = [send EXCEPT ![<<i, u>>] =
                IF delivery = "error" THEN "await_report" ELSE "returned"]
  /\ UNCHANGED <<notify, startLog, sendLog>>
  /\ FanFrame

\* lines 543-558: the failure of a send is reported to the logging chat
SendReported(i, u, report, fallback) ==
  /\ send[<<i, u>>] = "await_report"
  /\ send' = [send EXCEPT ![<<i, u>>] = error_report(FALSE, report, fallback)]
  /\ UNCHANGED <<notify, startLog, sendLog>>
  /\ FanFrame

\* lines 512-521: the gather of the sends of one entry returns; a timeout is logged, any
\* other exception of a send is raised again
NotifyEnds(i) ==
  /\ notify[i] = "await_sends"
  /\ \A u \in Subs : send[<<i, u>>] \in {"returned", "raised"}
  /\ notify' = [notify EXCEPT ![i] =
                  IF \E u \in Subs : send[<<i, u>>] = "raised" THEN "raised" ELSE "returned"]
  /\ UNCHANGED <<send, startLog, sendLog>>
  /\ FanFrame

NextContain ==
  \/ \E i \in Entries : NotifyStart(i)
  \/ \E i \in Entries, ok \in BOOLEAN : PostReady(i, ok)
  \/ \E i \in Entries, report \in Reports, fallback \in Reports : ReportEnds(i, report, fallback)
  \/ \E i \in Entries, u \in Subs, entity \in Entities : EntityEnds(i, u, entity)
  \/ \E i \in Entries, u \in Subs, delivery \in Deliveries : SendEnds(i, u, delivery)
  \/ \E i \in Entries, u \in Subs, report \in Reports, fallback \in Reports :
       SendReported(i, u, report, fallback)
  \/ \E i \in Entries : NotifyEnds(i)

SpecContain == InitFanout /\ [][NextContain]_vars

(***************************************************************************)
(* The blocked-user handler (lines 561-572) as __send reaches it.          *)
(***************************************************************************)
\* a mutant of the handler: the user is given up one failure earlier
locked_unsub_one_earlier(counter, locked) ==
  IF locked
    THEN [counter |-> counter, locked |-> TRUE, unsub |-> FALSE]
    ELSE IF counter < BlockedTolerance - 1
           THEN [counter |-> counter + 1, locked |-> FALSE, unsub |-> FALSE]
           ELSE [counter |-> 0, locked |-> TRUE, unsub |-> TRUE]

\* a mutant of the handler: the lock is not tested before the counter is touched
locked_unsub_without_test(counter, locked) ==
  IF counter < BlockedTolerance
    THEN [counter |-> counter + 1, locked |-> locked, unsub |-> FALSE]
    ELSE [counter |-> 0, locked |-> TRUE, unsub |-> TRUE]

\* lines 561-572, up to the await of unsub_all_and_leave_chat: the counter of the user and
\* the state of the lock after the handler's synchronous part, and whether unsub is called
locked_unsub_all_and_leave_chat(counter, locked) ==
  IF locked
    THEN [counter |-> counter, locked |-> TRUE, unsub |-> FALSE]
    ELSE IF counter < BlockedTolerance
           THEN [counter |-> counter + 1, locked |-> FALSE, unsub |-> FALSE]
           ELSE [counter |-> 0, locked |-> TRUE, unsub |-> TRUE]

InitBlocked ==
  /\ InitSched(MaxWorkers)
  /\ CheckIdle
  /\ FanIdle
  /\ InitBlk
  /\ LifeRunning
  /\ StatIdle

BlkFrame ==
  UNCHANGED <<schedVars, checkVars, fanVars, lifeVars, statVars>>

\* lines 529-530, 538-542: a send to the user fails the blocked way (entity not found, a
\* user-blocked error or TOPIC_CLOSED) and the handler runs
SendBlocked(u) ==
  LET r == locked_unsub_all_and_leave_chat(blocked_counter[u], unsub_lock[u])
  IN  /\ streak[u] < MaxStreak
      /\ blocked_counter' = [blocked_counter EXCEPT ![u] = r.counter]
      /\ unsub_lock' = [unsub_lock EXCEPT ![u] = r.locked]
      /\ unsubbing' = [unsubbing EXCEPT ![u] = IF r.unsub THEN @ + 1 ELSE @]
      /\ streak' = [streak EXCEPT ![u] = @ + 1]
      /\ overlap' = [overlap EXCEPT ![u] = @ \/ unsub_lock[u]]
      /\ unsub_at' = [unsub_at EXCEPT ![u] = IF r.unsub THEN Append(@, streak[u] + 1) ELSE @]
      /\ lastBlk' = BlkOp("handler", u, unsub_lock[u])
      /\ BlkFrame

\* line 572 and the exit of the async with of line 565: unsub_all_and_leave_chat returns or
\* raises and the lock is released
UnsubReturns(u) ==
  /\ unsubbing[u] > 0
  /\ unsubbing' = [unsubbing EXCEPT ![u] = @ - 1]
  /\ unsub_lock' = [unsub_lock EXCEPT ![u] = FALSE]
  /\ lastBlk' = BlkOp("unsub_returned", u, FALSE)
  /\ UNCHANGED <<blocked_counter, streak, overlap, unsub_at>>
  /\ BlkFrame

\* lines 535-537: a post is sent to the user and the counter of the user is reset
SendPost(u) ==
  /\ blocked_counter' = [blocked_counter EXCEPT ![u] = 0]
  /\ streak' = [streak EXCEPT ![u] = 0]
  /\ overlap' = [overlap EXCEPT ![u] = FALSE]
  /\ unsub_at' = [unsub_at EXCEPT ![u] = <<>>]
  /\ lastBlk' = BlkOp("post_sent", u, FALSE)
  /\ UNCHANGED <<unsub_lock, unsubbing>>
  /\ BlkFrame

\* lines 532-534: a plain message is sent to the user; the counter is left as it is
SendMessage(u) ==
  /\ lastBlk' = BlkOp("message_sent", u, FALSE)
  /\ UNCHANGED <<blocked_counter, unsub_lock, unsubbing, streak, overlap, unsub_at>>
  /\ BlkFrame

NextBlocked ==
  \/ \E u \in Users : SendBlocked(u)
  \/ \E u \in Users : UnsubReturns(u)
  \/ \E u \in Users : SendPost(u)
  \/ \E u \in Users : SendMessage(u)

SpecBlocked == InitBlocked /\ [][NextBlocked]_vars

C7_Coalescing ==
  /\ [](\A u \in Users : unsubbing[u] <= 1 /\ (unsub_lock[u] <=> unsubbing[u] = 1))
  /\ [][\A u \in Users :
          (lastBlk'.op = "handler" /\ lastBlk'.u = u /\ unsub_lock[u]) =>
            /\ blocked_counter'[u] = blocked_counter[u]
            /\ unsubbing'[u] = unsubbing[u]
            /\ unsub_at'[u] = unsub_at[u]
            /\ unsub_lock'[u]]_vars

C7_Witness ==
  \E u \in Users :
    /\ lastBlk = BlkOp("handler", u, TRUE)
    /\ unsubbing[u] = 1
    /\ unsub_lock[u]
    /\ streak[u] = BlockedTolerance + 2

\* C9 as stated: for every sub and every i < j, the send of ej is issued before the send
\* of ei, whatever the durations of rendering and sending.
C9_SendsReversed ==
  \A u \in Subs :
    \A k, l \in DOMAIN sendLog[u] : k < l => sendLog[u][k] > sendLog[u][l]

\* C9 amended: the __notify_all coroutines of one feed check are started in the reversed
\* order en, ..., e1, so the rendering of ej begins before the rendering of ei for i < j,
\* and no send of an entry is issued before the rendering of that entry has begun; the
\* coroutines then run concurrently and the order of the sends is not fixed.
C9_StartsReversed ==
  /\ \A k, l \in DOMAIN startLog : k < l => startLog[k] > startLog[l]
  /\ \A u \in Subs : \A k \in DOMAIN sendLog[u] :
       \E l \in DOMAIN startLog : startLog[l] = sendLog[u][k]

C9_Witness ==
  /\ Len(startLog) = MaxEntries
  /\ \E u \in Subs : \E k, l \in DOMAIN sendLog[u] : k < l /\ sendLog[u][k] < sendLog[u][l]

(***************************************************************************)
(* Properties of the table, the dispatcher and the worker.                 *)
(***************************************************************************)
\* C11 (invariant I3): whenever a step changes the state of a feed from non-empty to
\* empty, no unlock timer of that feed is still pending and no worker of that feed is
\* still running after the step; and _erase_state_for_feed_id is never invoked on an
\* empty state.
C11_EmptyMeansQuiescent ==
  [][/\ \A f \in Feeds :
          (task_defer_map[f] # EMPTY /\ task_defer_map'[f] = EMPTY) =>
            /\ \A t \in BagToSet(timers') : t.id # f
            /\ \A w \in Workers :
                 ~(worker'[w].id = f /\ worker'[w].pc \in {"lookup", "waiting", "cancelling"})
     /\ lastOp'.op = "erase" => task_defer_map[lastOp'.id] # EMPTY]_vars

\* nothing is left to do: no item, no worker, no timer, no flag
Quiescent ==
  /\ queue = <<>>
  /\ \A w \in Workers : worker[w].pc \in {"unborn", "finished"}
  /\ timers = EmptyBag
  /\ \A f \in Feeds : task_defer_map[f] = EMPTY

\* C23 (quiescence): with minimal_interval > 1, every dequeued id found and every detector
\* ending, under fair scheduling and finitely many submit_feed calls, the monitor comes to
\* rest: the queue empty, no worker running, no unlock timer pending, every state EMPTY.
C23_Quiescence ==
  <>[]Quiescent

\* at rest after a deferred submit was resubmitted and checked
C23_Witness ==
  /\ Quiescent
  /\ submits = MaxWorkers
  /\ counter_tier2["deferred"] >= 1
  /\ counter_tier2["resubmitted"] = counter_tier2["deferred"]
  /\ \A w \in Workers : worker[w].pc = "finished"

\* C21 (resubmission consumes the DEFERRED bit): right after a step in which
\* _erase_state_for_feed_id resubmits feed f, DEFERRED is not set on f, for every
\* minimal_interval; and the resubmissions of a feed never exceed its deferred submits.
C21_ResubmitConsumesDeferred ==
  /\ [][counter_tier2'["resubmitted"] > counter_tier2["resubmitted"] =>
          DEFERRED \notin task_defer_map'[lastOp'.id]]_vars
  /\ [](counter_tier2["resubmitted"] <= counter_tier2["deferred"])

(***************************************************************************)
(* Monitor.init, Monitor.close and the life of the dispatcher task.  A     *)
(* task is "created" until its first step, "waiting" in self._queue.get(), *)
(* "cancelling" between Task.cancel() and the step that raises             *)
(* CancelledError in it, and "done" after that.                            *)
(***************************************************************************)
\* number of dispatcher tasks init may create in a behaviour
MaxDispatchers == 3

\* asyncio.Task.done()
done(task) ==
  task = "done"

\* a mutant of init: the test of line 208 is left out
init_unguarded(tasks, bg) ==
  [tasks |-> Append(tasks, "created"), bg |-> Len(tasks) + 1]

\* Monitor.init, lines 207-210
init(tasks, bg) ==
  IF bg # 0 /\ ~done(tasks[bg])
    THEN [tasks |-> tasks, bg |-> bg]
    ELSE [tasks |-> Append(tasks, "created"), bg |-> Len(tasks) + 1]

\* Monitor.close, lines 212-222: Task.cancel() of a task that is not done requests the
\* cancellation and returns True
close(tasks, bg) ==
  IF bg # 0 /\ ~done(tasks[bg])
    THEN [tasks |-> [tasks EXCEPT ![bg] = "cancelling"], bg |-> bg]
    ELSE [tasks |-> tasks, bg |-> bg]

\* the dispatcher tasks that are not done
Alive ==
  {k \in DOMAIN bg_tasks : ~done(bg_tasks[k])}

\* the state after the construction of the Monitor, before init
InitLife ==
  /\ InitSched(MaxWorkers)
  /\ minimal_interval = 1
  /\ CheckIdle
  /\ FanIdle
  /\ InitBlk
  /\ bg_tasks = <<>>
  /\ bg_task = 0
  /\ StatIdle

LifeFrame ==
  UNCHANGED <<schedVars, checkVars, fanVars, blkVars, statVars>>

MonitorInit ==
  LET r == init(bg_tasks, bg_task)
  IN  /\ Len(r.tasks) <= MaxDispatchers
      /\ bg_tasks' = r.tasks
      /\ bg_task' = r.bg
      /\ LifeFrame

MonitorClose ==
  LET r == close(bg_tasks, bg_task)
  IN  /\ bg_tasks' = r.tasks
      /\ bg_task' = r.bg
      /\ LifeFrame

\* _create_bg_task, lines 228-232: the first step of the task, up to self._queue.get()
BgStart(k) ==
  /\ bg_tasks[k] = "created"
  /\ bg_tasks' = [bg_tasks EXCEPT ![k] = "waiting"]
  /\ UNCHANGED bg_task
  /\ LifeFrame

\* CancelledError is raised in the task at the await of line 232 (or before its first
\* step); the item the task was woken for, if any, stays on the queue
BgCancelled(k) ==
  /\ bg_tasks[k] = "cancelling"
  /\ bg_tasks' = [bg_tasks EXCEPT ![k] = "done"]
  /\ UNCHANGED bg_task
  /\ LifeFrame

\* _create_bg_task, lines 232-236: one iteration of the loop of dispatcher task k
DispatchBy(k, w) ==
  /\ bg_tasks[k] = "waiting"
  /\ Dispatch(w)

NextLife ==
  \/ MonitorInit
  \/ MonitorClose
  \/ \E k \in DOMAIN bg_tasks : BgStart(k)
  \/ \E k \in DOMAIN bg_tasks : BgCancelled(k)
  \/ \E k \in DOMAIN bg_tasks, w \in Workers : DispatchBy(k, w)
  \/ \E f \in Feeds : SubmitFeed(f)
  \/ \E w \in Workers : WorkerStart(w)
  \/ \E w \in Workers, found \in BOOLEAN : WorkerLookup(w, found)
  \/ \E w \in Workers, d \in DetectorEnds : WorkerDone(w, d)
  \/ \E w \in Workers : WorkerTimeout(w)
  \/ \E w \in Workers, d \in DetectorEnds : WorkerUnwound(w, d)

SpecLife == InitLife /\ [][NextLife]_vars

\* the items put on the queue so far: by submit_feed (not deferred) and by resubmission
Puts ==
  submits - counter_tier2["deferred"] + counter_tier2["resubmitted"]

\* the workers spawned so far
Spawned ==
  Cardinality({w \in Workers : worker[w].pc # "unborn"})

\* C12: after any sequence of init and close calls at most one dispatcher task is alive;
\* every item put on the queue is either still on the queue or was dequeued once and
\* spawned exactly one worker; a worker is spawned only by the task _bg_task refers to,
\* and never after close requested its cancellation.
C12_OneDispatcher ==
  /\ [](Cardinality(Alive) <= 1 /\ Alive \subseteq {bg_task})
  /\ [](Puts = Len(queue) + Spawned)
  /\ [][(\E w \in Workers : worker[w].pc = "unborn" /\ worker'[w].pc # "unborn")
          => (bg_task # 0 /\ bg_tasks[bg_task] = "waiting")]_vars

C12_Witness ==
  /\ Len(bg_tasks) = 2
  /\ bg_tasks[1] = "done"
  /\ bg_tasks[2] = "cancelling"
  /\ Spawned = 2
  /\ queue # <<>>

\* a step clears IN_PROGRESS of the feed of the check or resubmits the feed
ErasesInProgress ==
  /\ IN_PROGRESS \in task_defer_map[1]
  /\ IN_PROGRESS \notin task_defer_map'[1] \/ Len(queue') > Len(queue)

\* C13 as stated: IN_PROGRESS of f is cleared, or f resubmitted, only when the detector
\* spawned for f has terminated (or none was spawned), including when the worker itself is
\* cancelled.
C13_EraseAfterDetector ==
  [][ErasesInProgress => det.pc \in {"none", "done"}]_vars

\* C13 amended: a worker that is not cancelled erases IN_PROGRESS of f, or resubmits f,
\* only after the detector it spawned has terminated: returned, raised, or finished
\* unwinding from the cancellation issued on timeout.  A worker that is itself cancelled
\* while it waits in asyncio.wait erases IN_PROGRESS at once and leaves its detector as it
\* is, running and not cancelled; one cancelled in the lookup of the feed erases nothing.
C13_EraseAfterDetectorUnlessCancelled ==
  [][/\ (ErasesInProgress /\ lastOp'.op # "cancelled") => det.pc \in {"none", "done"}
     /\ worker[1].pc = "cancelling" /\ worker'[1] = Finished => det.pc = "done"
     /\ lastOp'.op = "cancelled" =>
          /\ det' = det
          /\ worker[1].pc = "waiting" => ErasesInProgress
          /\ worker[1].pc = "lookup" => task_defer_map' = task_defer_map]_vars

\* a timed-out check: the detector was cancelled, unwound through its finally block, and
\* only then IN_PROGRESS was erased
C13_Witness ==
  /\ worker[1] = Finished
  /\ lastOp = Op("erase", 1, IN_PROGRESS)
  /\ counter_tier2["timeout"] = 1
  /\ det.pc = "done"
  /\ det.how = "cancelled"
  /\ det.status = 200
  /\ IN_PROGRESS \notin task_defer_map[1]

\* the outcomes only the worker records
WorkerTags == {"timeout", "timeout_unknown_error", "cancelled", "unknown_error"}

\* the step records the worker outcome `tag` and no other worker outcome
RecordsOnly(tag) ==
  \A t \in WorkerTags : counter_tier2'[t] = counter_tier2[t] + (IF t = tag THEN 1 ELSE 0)

\* C14: a detector still pending at the timeout is cancelled and the check is recorded as
\* timeout when its unwinding raised the cancellation and as timeout_unknown_error when it
\* raised another exception; a detector that finished within the timeout is recorded as
\* cancelled or unknown_error when it raised and not at all by the worker when it
\* returned; timeout and timeout_unknown_error are recorded for timed-out detectors only.
C14_Classification ==
  [][/\ (worker[1].pc = "cancelling" /\ worker'[1] = Finished) =>
          \/ det.how = "cancelled" /\ RecordsOnly("timeout")
          \/ det.how = "exception" /\ RecordsOnly("timeout_unknown_error")
     /\ (worker[1].pc = "waiting" /\ worker'[1] = Finished) =>
          \/ det.how = "return" /\ RecordsOnly("none")
          \/ det.how = "cancelled" /\ RecordsOnly("cancelled")
          \/ det.how = "exception" /\ RecordsOnly("unknown_error")
     /\ (\E t \in {"timeout", "timeout_unknown_error"} : counter_tier2'[t] # counter_tier2[t])
          => (worker[1].pc = "cancelling" /\ det.pc = "done")
     /\ (worker[1].pc = "waiting" /\ worker'[1].pc = "cancelling") =>
          (det.pc # "done" /\ det'.must_cancel)]_vars

\* a timed-out check whose detector raised another exception while it unwound
C14_Witness ==
  /\ worker[1] = Finished
  /\ det.pc = "done"
  /\ det.how = "exception"
  /\ counter_tier2["timeout_unknown_error"] = 1
  /\ counter_tier2["unknown_error"] = 0

(***************************************************************************)
(* MonitoringStat: the recordings and print_summary (lines 148-168).       *)
(* Times are half seconds, so that round() has halves to round.            *)
(***************************************************************************)
\* the methods of MonitoringStat that record an outcome, lines 74-120
StatMethods == Tags \ {"SUM"}

\* the time between two readings of env.loop.time(): 299.5 s or 300 s
Waits == {599, 600}

\* round(x) of a non-negative float x given in half seconds: the nearest integer, a
\* tie going to the even one
round(halves) ==
  IF halves % 2 = 0 THEN halves \div 2
  ELSE IF ((halves - 1) \div 2) % 2 = 0 THEN (halves - 1) \div 2
  ELSE (halves + 1) \div 2

\* Counter.__iadd__: the counts are added and only the positive ones are kept; a
\* missing key reads as 0
counter_add(a, b) ==
  [t \in Tags |-> IF a[t] + b[t] > 0 THEN a[t] + b[t] ELSE 0]

\* a counter that is left as it is
clear_nothing(c) ==
  c

\* Counter.clear
clear(c) ==
  MonitoringCounter

\* lines 139-146, _summarize: the counts that one summary logs; nothing is logged of a
\* counter whose SUM is 0
summarize(counter) ==
  IF counter["SUM"] # 0 THEN counter ELSE MonitoringCounter

\* lines 148-168, print_summary at time now: the fields of the MonitoringStat after the
\* call and the counts it has logged for each tier
print_summary(st, now) ==
  IF st.tier1_last_summary_time = None
    THEN [stat |-> [st EXCEPT !.tier1_last_summary_time = Some(now),
                              !.tier2_last_summary_time = Some(now)],
          logged2 |-> MonitoringCounter, logged1 |-> MonitoringCounter]
    ELSE LET logged2 == summarize(st.counter_tier2)
             tier1 == counter_add(st.counter_tier1, st.counter_tier2)
             s2 == [st EXCEPT !.tier2_last_summary_time = Some(now),
                              !.counter_tier1 = tier1,
                              !.counter_tier2 = clear(st.counter_tier2)]
             tier1_time_diff == round(now - st.tier1_last_summary_time[1])
         IN  IF tier1_time_diff < TIMEOUT
               THEN [stat |-> s2, logged2 |-> logged2, logged1 |-> MonitoringCounter]
               ELSE [stat |-> [s2 EXCEPT !.tier1_last_summary_time = Some(now),
                                         !.counter_tier1 = clear(tier1)],
                     logged2 |-> logged2, logged1 |-> summarize(tier1)]

InitStat ==
  /\ InitSched(MaxWorkers)
  /\ minimal_interval = 1
  /\ CheckIdle
  /\ FanIdle
  /\ InitBlk
  /\ LifeRunning
  /\ StatIdle

StatFrame ==
  UNCHANGED <<minimal_interval, clock, task_defer_map, queue, timers, worker, submits, lastOp,
              lastSubmitEnq, early, checkVars, fanVars, blkVars, lifeVars>>

\* lines 74-120: one of the methods that record an outcome is called
Record(tag) ==
  /\ recorded["SUM"] < MaxRecords
  /\ counter_tier2' = StatRecord(counter_tier2, tag)
  /\ recorded' = StatRecord(recorded, tag)
  /\ lastStat' = "record"
  /\ UNCHANGED <<counter_tier1, tier1_last_summary_time, tier2_last_summary_time, loop_time,
                 emitted1, emitted2>>
  /\ StatFrame

\* the time of the loop advances
Wait(d) ==
  /\ loop_time + d <= MaxLoopTime
  /\ loop_time' = loop_time + d
  /\ lastStat' = "wait"
  /\ UNCHANGED <<counter_tier2, counter_tier1, tier1_last_summary_time,
                 tier2_last_summary_time, recorded, emitted1, emitted2>>
  /\ StatFrame

\* line 336: run_periodic_task calls print_summary
PrintSummary ==
  LET r == print_summary([counter_tier1 |-> counter_tier1, counter_tier2 |-> counter_tier2,
                          tier1_last_summary_time |-> tier1_last_summary_time,
                          tier2_last_summary_time |-> tier2_last_summary_time], loop_time)
  IN  /\ counter_tier1' = r.stat.counter_tier1
      /\ counter_tier2' = r.stat.counter_tier2
      /\ tier1_last_summary_time' = r.stat.tier1_last_summary_time
      /\ tier2_last_summary_time' = r.stat.tier2_last_summary_time
      /\ emitted1' = counter_add(emitted1, r.logged1)
      /\ emitted2' = counter_add(emitted2, r.logged2)
      /\ lastStat' = "print_summary"
      /\ UNCHANGED <<loop_time, recorded>>
      /\ StatFrame

NextStat ==
  \/ \E tag \in StatMethods : Record(tag)
  \/ \E d \in Waits : Wait(d)
  \/ PrintSummary

SpecStat == InitStat /\ [][NextStat]_vars

(***************************************************************************)
(* Properties of the statistics.                                           *)
(***************************************************************************)
\* C18 as claimed (tier-1 period): a print_summary call emits and resets tier-1 only when
\* at least 600 s have elapsed since the last tier-1 emit.
C18_ResetAfter600 ==
  [][(/\ lastStat' = "print_summary"
      /\ tier1_last_summary_time # None
      /\ tier1_last_summary_time' # tier1_last_summary_time) =>
       loop_time - tier1_last_summary_time[1] >= 2 * TIMEOUT]_vars

\* C18 (two-tier statistics conservation): the first print_summary call changes only the
\* two baseline timestamps; every later call adds all tier-2 counts to tier-1, leaves
\* tier-2 all zero, and emits and resets tier-1 exactly when the elapsed time rounds to at
\* least 600 s, that is from 599.5 s on; every recorded outcome is in tier-2 or in exactly
\* one tier-2 emission, and every outcome of a tier-2 emission is in tier-1 or in exactly
\* one tier-1 emission.
C18_TwoTier ==
  /\ [](\A t \in Tags : /\ recorded[t] = emitted2[t] + counter_tier2[t]
                         /\ emitted2[t] = emitted1[t] + counter_tier1[t])
  /\ [][lastStat' = "print_summary" =>
          IF tier1_last_summary_time = None
            THEN /\ tier1_last_summary_time' = Some(loop_time)
                 /\ tier2_last_summary_time' = Some(loop_time)
                 /\ UNCHANGED <<counter_tier1, counter_tier2, emitted1, emitted2>>
            ELSE LET due == loop_time - tier1_last_summary_time[1] >= 2 * TIMEOUT - 1
                     folded == [t \in Tags |-> counter_tier1[t] + counter_tier2[t]]
                 IN  /\ counter_tier2' = [t \in Tags |-> 0]
                     /\ tier2_last_summary_time' = Some(loop_time)
                     /\ emitted2' = [t \in Tags |-> emitted2[t] + counter_tier2[t]]
                     /\ counter_tier1' = IF due THEN [t \in Tags |-> 0] ELSE folded
                     /\ emitted1' = IF due THEN [t \in Tags |-> emitted1[t] + folded[t]]
                                    ELSE emitted1
                     /\ tier1_last_summary_time' =
                          IF due THEN Some(loop_time) ELSE tier1_last_summary_time]_vars

\* two outcomes recorded, folded into tier-1 and emitted by the tier-1 summary of a call
\* 599.5 s after the baseline
C18_Witness ==
  /\ lastStat = "print_summary"
  /\ recorded["SUM"] = 2
  /\ emitted1["SUM"] = 2
  /\ tier1_last_summary_time = Some(2 * TIMEOUT - 1)
  /\ counter_tier1["SUM"] = 0

\* the sum of the tags that SUM counts
Counted(c) ==
  c["not_updated"] + c["failed"] + c["updated"] + c["skipped"] + c["timeout"] + c["cancelled"]
  + c["unknown_error"] + c["timeout_unknown_error"] + c["deferred"] + c["resubmitted"]

\* C19 (counter consistency): in both counters SUM is the sum of not_updated, failed,
\* updated, skipped, timeout, cancelled, unknown_error, timeout_unknown_error, deferred and
\* resubmitted; cached + empty <= not_updated; no count is negative.
C19_Consistent ==
  \A c \in {counter_tier1, counter_tier2} :
    /\ c["SUM"] = Counted(c)
    /\ c["cached"] + c["empty"] <= c["not_updated"]
    /\ \A t \in Tags : c[t] >= 0

\* a cached outcome folded into tier-1 and a deferral recorded in tier-2
C19_Witness ==
  /\ counter_tier1["cached"] = 1
  /\ counter_tier1["not_updated"] = 1
  /\ counter_tier1["SUM"] = 1
  /\ counter_tier2["deferred"] = 1
  /\ counter_tier2["SUM"] = 1

(***************************************************************************)
(* Properties of the failure path of the detector.                         *)
(***************************************************************************)
\* the check has ended by a return of the detector after a fetch of kind `status`
Returned(status) ==
  /\ det.pc = "done"
  /\ det.how = "return"
  /\ det.status = status

\* feed.interval or db.EffectiveOptions.default_interval
IntervalOf(fd) ==
  IF fd.interval # None /\ fd.interval[1] # 0 THEN fd.interval[1] ELSE 10

\* C15 (failure back-off): after a check whose fetch failed and brought error_count to c,
\* with candidate = min(interval', 15) * min(c div 10 + 1, 5): for 10 <= c < 100 the
\* stored next_check_time is now + candidate when candidate > interval' and none
\* otherwise; for c < 10 it is none; the back-off never exceeds 75 minutes.
C15_BackOff ==
  Returned(500) =>
    LET c == hist.feed0.error_count + 1
        i == IntervalOf(hist.feed0)
        k == IF c \div 10 + 1 <= 5 THEN c \div 10 + 1 ELSE 5
        candidate == (IF i <= 15 THEN i ELSE 15) * k
    IN  /\ (c >= 10 /\ c < 100 /\ candidate > i) => stored.next_check_time = Some(candidate)
        /\ (c >= 10 /\ c < 100 /\ candidate <= i) => stored.next_check_time = None
        /\ c < 10 => stored.next_check_time = None
        /\ stored.next_check_time # None => stored.next_check_time[1] <= 75

\* the fetch failed for the 50th time on a feed checked every 60 minutes: 75 minutes
C15_Witness ==
  /\ Returned(500)
  /\ hist.feed0.error_count = 49
  /\ hist.feed0.interval = Some(60)
  /\ stored.next_check_time = Some(75)
  /\ worker[1] = Finished

\* C17: a check whose fetch failed increases error_count by exactly 1 and persists it; a
\* check whose fetch returned without error (304, empty, not updated, updated) leaves the
\* stored error_count at 0; a skipped check leaves it unchanged; error_count is never
\* negative.
C17_ErrorCount ==
  /\ Returned(500) => stored.error_count = hist.feed0.error_count + 1
  /\ (Returned(304) \/ Returned(200)) => stored.error_count = 0
  /\ (det.pc = "done" /\ det.how = "return" /\ counter_tier2["skipped"] = 1) =>
       stored.error_count = hist.feed0.error_count
  /\ stored.error_count >= 0
  /\ feed.error_count >= 0
  /\ feed.error_count \in {hist.feed0.error_count, hist.feed0.error_count + 1, 0}

\* a fetch without error after 48 failed ones: the count is back at 0 and saved
C17_Witness ==
  /\ Returned(200)
  /\ hist.feed0.error_count = 48
  /\ stored.error_count = 0
  /\ counter_tier2["not_updated"] = 1
  /\ worker[1] = Finished

\* C16 (auto-deactivation): a check whose failed fetch brings error_count to 100, and
\* whose gather of the notices has ended, has called deactivate_feed exactly
\* once, started a notice to every active sub, recorded exactly one stat.failed and set no
\* next_check_time; no check that leaves error_count below 100 calls deactivate_feed.
C16_Deactivation ==
  /\ (/\ det.pc = "done"
      /\ det.status = 500
      /\ feed.error_count = 100
      /\ hist.notices # {}) =>
       /\ hist.deactivations = 1
       /\ hist.notices = det.subs
       /\ counter_tier2["failed"] = 1
       /\ feed.next_check_time = None
  /\ feed.error_count < 100 => hist.deactivations = 0

\* the entry lists a later fetch of the feed may return
LaterEntries == {<<1>>, <<2>>, <<2, 1>>, <<1, 2>>, <<3, 2, 1>>}

\* C22 (persist before fan-out): when the fan-out of a check has begun, whether it is
\* still running, has returned, raised, was cancelled or timed out, the stored row holds
\* the new entry_hashes and last_modified of the check, the check has begun one fan-out
\* only, and no later fetch makes calculate_update report one of its updated entries.
C22_PersistBeforeFanout ==
  hist.fanouts > 0 =>
    /\ hist.fanouts = 1
    /\ det.updated_entries # <<>>
    /\ stored.entry_hashes = feed.entry_hashes
    /\ stored.last_modified = feed.last_modified
    /\ stored.entry_hashes # None
    /\ SeqToSet(det.updated_entries) \subseteq SeqToSet(stored.entry_hashes[1])
    /\ \A entries \in LaterEntries :
         SeqToSet(calculate_update(stored.entry_hashes, entries).updated_entries)
           \cap SeqToSet(det.updated_entries) = {}

\* the fan-out of entry 2 raised after the row took the hashes <<2, 1>>
C22_Witness ==
  /\ hist.fanouts = 1
  /\ det.pc = "done"
  /\ det.how = "exception"
  /\ det.updated_entries = <<2>>
  /\ hist.feed0.entry_hashes = Some(<<1>>)
  /\ stored.entry_hashes = Some(<<2, 1>>)
  /\ counter_tier2["unknown_error"] = 1
  /\ worker[1] = Finished

\* C24 (no stale next_check_time): after a check that performed a fetch and returned
\* (cached, failed, empty, not_updated or updated), the stored next_check_time is none or
\* strictly later than the `now` of the check, which is 0.
C24_NextCheckNotPast ==
  (det.pc = "done" /\ det.how = "return" /\ det.status \in {304, 500, 200}) =>
    /\ stored.next_check_time = None \/ stored.next_check_time[1] > 0
    /\ feed.next_check_time = stored.next_check_time

\* a feed stored with a next_check_time 3 minutes in the past was fetched and found not
\* updated, and the check cleared the stored time
C24_Witness ==
  /\ Returned(200)
  /\ hist.feed0.next_check_time = Some(-3)
  /\ stored.next_check_time = None
  /\ counter_tier2["not_updated"] = 1
  /\ worker[1] = Finished

\* C20 (fan-out failure containment): a rendering that fails, or a send that fails with a
\* non-timeout error, is reported and swallowed even when the report cannot be
\* transmitted: no exception leaves a __send or a __notify_all, and the fan-out ends with
\* the return that makes the check `updated`.
C20_Contained ==
  /\ \A i \in Entries : notify[i] # "raised"
  /\ \A x \in DOMAIN send : send[x] # "raised"
====
